---- MODULE Spec2Model ----
(***************************************************************************)
(* Synthea CSV <-> FHIR R4 field mappers.                                  *)
(*                                                                         *)
(* A CSV row is a function from column names to strings; a FHIR resource   *)
(* is a function from field names to values in which an omitted field is   *)
(* a key outside the DOMAIN.  A string the code inspects character by      *)
(* character (a VALUE, an id, a statistic) is a sequence of one-character  *)
(* strings, so that parsing, stripping, lower-casing and splitting are      *)
(* computed as the code computes them; the empty sequence is both the      *)
(* empty string and an absent column (dict.get gives None, which every     *)
(* reader below treats as it treats "").  Fixed vocabulary that the code   *)
(* only compares (URLs, resource types, field names) stays a TLA+ string.  *)
(***************************************************************************)
EXTENDS Integers, Sequences, FiniteSets, TLC

VARIABLES
    mapper,   \* which mapper pair the call is about
    tree,     \* 1: to_fhir / to_synthea_csv / common; 2: fhir_mappers / synthea_csv_mappers / *_lib
    row,      \* the CSV row given to the forward mapper
    res,      \* the FHIR resource (built by the forward mapper, or given)
    csv,      \* the CSV row returned by the reverse mapper
    pc,       \* "start", "given", "mapped", "reversed", "raised"
    err       \* the exception that ended the last call, "" when none

vars == <<mapper, tree, row, res, csv, pc, err>>

\* ------------------------------------------------------------------ bounds

\* Longest generated numeric string.
MaxNumLen == 3
\* Longest generated id string.
MaxIdLen == 3
\* Longest generated free-text string.
MaxTextLen == 2

\* ------------------------------------------------------------------ strings

Empty == <<>>

SeqsUpTo(A, n) == UNION {[1..k -> A] : k \in 0..n}

Chars(s) == {s[i] : i \in 1..Len(s)}

Whitespace == {" ", "\t", "\n", "\r"}

\* str.lower()
lower(s) ==
    LET upper == <<"A","B","C","D","E","F","G","H","I","J","K","L","M",
                   "N","O","P","Q","R","S","T","U","V","W","X","Y","Z">>
        small == <<"a","b","c","d","e","f","g","h","i","j","k","l","m",
                   "n","o","p","q","r","s","t","u","v","w","x","y","z">>
    IN  [i \in 1..Len(s) |->
            IF \E j \in 1..26 : upper[j] = s[i]
            THEN small[CHOOSE j \in 1..26 : upper[j] = s[i]]
            ELSE s[i]]

RECURSIVE lstrip(_)
lstrip(s) ==
    IF s # Empty /\ Head(s) \in Whitespace THEN lstrip(Tail(s)) ELSE s

RECURSIVE rstrip(_)
rstrip(s) ==
    IF s # Empty /\ s[Len(s)] \in Whitespace
    THEN rstrip(SubSeq(s, 1, Len(s) - 1))
    ELSE s

\* str.strip()
strip(s) == rstrip(lstrip(s))

\* ------------------------------------------------------------------ numbers

Digits == {"0","1","2","3","4","5","6","7","8","9"}

DigitSeq == <<"0","1","2","3","4","5","6","7","8","9">>

RECURSIVE ToNat(_)
ToNat(ds) ==
    IF ds = Empty THEN 0
    ELSE 10 * ToNat(SubSeq(ds, 1, Len(ds) - 1))
            + (CHOOSE i \in 1..10 : DigitSeq[i] = ds[Len(ds)]) - 1

RECURSIVE NatToStr(_)
NatToStr(n) ==
    IF n < 10 THEN <<DigitSeq[n + 1]>>
    ELSE NatToStr(n \div 10) \o <<DigitSeq[(n % 10) + 1]>>

RECURSIVE Pow10(_)
Pow10(e) == IF e = 0 THEN 1 ELSE 10 * Pow10(e - 1)

RECURSIVE Zeros(_)
Zeros(n) == IF n = 0 THEN Empty ELSE <<"0">> \o Zeros(n - 1)

\* A Python float is [k |-> "nan"], [k |-> "inf", neg], or the finite decimal
\* (-1)^neg * m / 10^e with m carrying no trailing zero while e > 0.  The
\* generated inputs have at most a handful of significant digits, for which
\* binary rounding and repr() reproduce the decimal exactly.
RECURSIVE Normal(_, _, _)
Normal(neg, m, e) ==
    IF e > 0 /\ m % 10 = 0 THEN Normal(neg, m \div 10, e - 1)
    ELSE [k |-> "fin", neg |-> neg, m |-> m, e |-> e]

NotANumber == [k |-> "err"]

\* float(s): surrounding whitespace stripped, an optional sign, then inf,
\* infinity or nan in any letter case, or digits with at most one point and at
\* least one digit.  (Exponents and digit-group underscores are not generated:
\* no input alphabet below holds "e" after a digit, or "_".)
float(s) ==
    LET \* ip, fp: the characters before and after the point
        digits(neg, ip, fp) ==
            IF Chars(ip) \cup Chars(fp) \subseteq Digits /\ Len(ip) + Len(fp) >= 1
            THEN Normal(neg, ToNat(ip \o fp), Len(fp))
            ELSE NotANumber
        \* dots: the positions of "." in body; p: the first of them
        split(neg, body, dots, p) ==
            IF Cardinality(dots) > 1 THEN NotANumber
            ELSE digits(neg, SubSeq(body, 1, p - 1), SubSeq(body, p + 1, Len(body)))
        word(neg, body, low, dots) ==
            IF low \in {<<"i","n","f">>, <<"i","n","f","i","n","i","t","y">>}
            THEN [k |-> "inf", neg |-> neg]
            ELSE IF low = <<"n","a","n">>
            THEN [k |-> "nan"]
            ELSE split(neg, body, dots,
                       IF dots = {} THEN Len(body) + 1 ELSE CHOOSE i \in dots : TRUE)
        unsigned(neg, body) ==
            word(neg, body, lower(body), {i \in 1..Len(body) : body[i] = "."})
        signed(t, sign) ==
            unsigned(sign /\ t[1] = "-", IF sign THEN Tail(t) ELSE t)
        stripped(t) == signed(t, t # Empty /\ t[1] \in {"+", "-"})
    IN  stripped(strip(s))

\* int(s) on a string: stripped, optional sign, digits only.
int_str(s) ==
    LET unsigned(neg, body) ==
            IF body # Empty /\ Chars(body) \subseteq Digits
            THEN [err |-> "", n |-> IF neg THEN 0 - ToNat(body) ELSE ToNat(body)]
            ELSE [err |-> "ValueError", n |-> 0]
        signed(t, sign) ==
            unsigned(sign /\ t[1] = "-", IF sign THEN Tail(t) ELSE t)
        stripped(t) == signed(t, t # Empty /\ t[1] \in {"+", "-"})
    IN  stripped(strip(s))

\* int(f) on a float: truncation toward zero; NaN raises ValueError and an
\* infinity raises OverflowError.
int_float(f) ==
    IF f.k = "nan" THEN [err |-> "ValueError", n |-> 0]
    ELSE IF f.k = "inf" THEN [err |-> "OverflowError", n |-> 0]
    ELSE LET q == f.m \div Pow10(f.e)
         IN  [err |-> "", n |-> IF f.neg THEN 0 - q ELSE q]

\* str(n) on an int.
str_int(n) == IF n < 0 THEN <<"-">> \o NatToStr(0 - n) ELSE NatToStr(n)

\* str(f) on a float (repr): plain decimal notation, ".0" on a whole number.
str_float(f) ==
    IF f.k = "nan" THEN <<"n","a","n">>
    ELSE IF f.k = "inf"
    THEN (IF f.neg THEN <<"-">> ELSE Empty) \o <<"i","n","f">>
    ELSE LET ip == NatToStr(f.m \div Pow10(f.e))
             fd == NatToStr(f.m % Pow10(f.e))
             fp == IF f.e = 0 THEN <<"0">> ELSE Zeros(f.e - Len(fd)) \o fd
         IN  (IF f.neg THEN <<"-">> ELSE Empty) \o ip \o <<".">> \o fp

IsFinite(f) == f.k = "fin"

IsWhole(f) == f.k = "fin" /\ f.e = 0

\* Python's == on two floats: NaN equals nothing, -0.0 equals 0.0.
NumEq(f, g) ==
    /\ f.k \in {"fin", "inf"}
    /\ g.k = f.k
    /\ IF f.k = "inf" THEN f.neg = g.neg
       ELSE f.m = g.m /\ f.e = g.e /\ (f.m = 0 \/ f.neg = g.neg)

\* dict.get(column): an absent column reads as the empty string.
Get(d, k) == IF k \in DOMAIN d THEN d[k] ELSE Empty

\* One optional entry of a dict under construction: dropped when empty.
Opt(k, v) == IF v = Empty THEN Empty ELSE k :> v

\* The concatenation of a sequence of sequences (x: the argument, evaluated
\* once).
RECURSIVE Flatten(_)
Flatten(ss) ==
    CHOOSE r \in {IF x = Empty THEN Empty ELSE Head(x) \o Flatten(Tail(x)) : x \in {ss}} :
        TRUE

\* ------------------------------------------------------------------ references

RefTypeName(resource_type) ==
    CASE resource_type = "Patient" -> <<"P","a","t","i","e","n","t">>
      [] resource_type = "Encounter" -> <<"E","n","c","o","u","n","t","e","r">>
      [] resource_type = "Organization" ->
            <<"O","r","g","a","n","i","z","a","t","i","o","n">>
      [] resource_type = "Practitioner" ->
            <<"P","r","a","c","t","i","t","i","o","n","e","r">>
      [] resource_type = "Coverage" -> <<"C","o","v","e","r","a","g","e">>
      [] resource_type = "Claim" -> <<"C","l","a","i","m">>

\* common/transformers.create_reference: always a reference object.
create_reference(resource_type, resource_id) ==
    [reference |-> RefTypeName(resource_type) \o <<"/">> \o resource_id]

\* fhir_lib.create_reference: None (the empty function) for a blank id, the id
\* stripped otherwise.
lib_create_reference(resource_type, resource_id) ==
    IF resource_id = Empty \/ strip(resource_id) = Empty THEN Empty
    ELSE [reference |-> RefTypeName(resource_type) \o <<"/">> \o strip(resource_id)]

\* Faulty variant: the reference string returned whole, the type prefix not split off.
WholeReference(s) == s

\* ref_str.split("/")[-1]
AfterLastSlash(s) ==
    LET slashes == {i \in 1..Len(s) : s[i] = "/"}
        last == CHOOSE i \in slashes : \A j \in slashes : j <= i
    IN  IF slashes = {} THEN s ELSE SubSeq(s, last + 1, Len(s))

\* common/reverse_transformers.extract_reference_id; None is written "".
extract_reference_id(reference) ==
    IF reference = Empty THEN Empty
    ELSE LET ref_str == Get(reference, "reference")
         IN  IF ref_str = Empty THEN Empty ELSE AfterLastSlash(ref_str)

\* synthea_csv_lib.extract_reference_id
lib_extract_reference_id(reference_obj) ==
    IF reference_obj = Empty THEN Empty
    ELSE LET reference == Get(reference_obj, "reference")
         IN  IF reference = Empty THEN Empty ELSE AfterLastSlash(reference)

\* ------------------------------------------------------------------ extensions

\* Faulty variant: the first entry of the array returned whatever its url.
extract_extension_by_position(extensions, url) ==
    IF extensions = Empty THEN Empty ELSE extensions[1]

\* common/reverse_transformers.extract_extension_by_url: the first entry whose
\* url matches; None is the empty function.
extract_extension_by_url(extensions, url) ==
    LET hits == {i \in 1..Len(extensions) : extensions[i].url = url}
    IN  IF hits = {} THEN Empty
        ELSE extensions[CHOOSE i \in hits : \A j \in hits : i <= j]

\* ------------------------------------------------------------------ datetime codec

\* The digit groups of a string, cut at every character that is no digit (a
\* string with k such characters has k + 1 groups, empty ones included).
Fields(s) ==
    LET cut == {i \in 1..Len(s) : s[i] \notin Digits}
        kth(k) == CHOOSE i \in cut : Cardinality({j \in cut : j < i}) = k - 1
        group(lo, hi) == SubSeq(s, lo + 1, hi - 1)
    IN  [k \in 1..(Cardinality(cut) + 1) |->
            group(IF k = 1 THEN 0 ELSE kth(k - 1),
                  IF k = Cardinality(cut) + 1 THEN Len(s) + 1 ELSE kth(k))]

\* calendar: the number of days of a month
DaysInMonth(y, m) ==
    IF m = 2
    THEN (IF y % 4 = 0 /\ (y % 100 # 0 \/ y % 400 = 0) THEN 29 ELSE 28)
    ELSE IF m \in {4, 6, 9, 11} THEN 30 ELSE 31

\* datetime(year, month, day, hour, minute, second, tzinfo) from digit groups
\* f (three for a date, at midnight): ValueError when a value is out of range.
\* tz is "" for a naive datetime, else the offset as isoformat() prints it.
datetime(f, tz) ==
    LET n(k) == IF k <= Len(f) THEN ToNat(f[k]) ELSE 0
    IN  IF /\ n(1) \in 1..9999 /\ n(2) \in 1..12 /\ n(3) \in 1..DaysInMonth(n(1), n(2))
           /\ n(4) <= 23 /\ n(5) <= 59 /\ n(6) <= 59
        THEN [err |-> "", year |-> n(1), month |-> n(2), day |-> n(3),
              hour |-> n(4), minute |-> n(5), second |-> n(6), tz |-> tz]
        ELSE [err |-> "ValueError"]

\* datetime.strptime(s, "%Y-%m-%d %H:%M:%S") when with_time, else
\* datetime.strptime(s, "%Y-%m-%d"): four year digits, one or two digits in
\* every other field.
strptime(s, with_time) ==
    LET match(f, seps) ==
            IF /\ seps = (IF with_time THEN <<"-", "-", " ", ":", ":">> ELSE <<"-", "-">>)
               /\ Len(f[1]) = 4
               /\ \A k \in 2..Len(f) : Len(f[k]) \in {1, 2}
            THEN datetime(f, Empty)
            ELSE [err |-> "ValueError"]
    IN  match(Fields(s), SelectSeq(s, LAMBDA c : c \notin Digits))

\* datetime.fromisoformat(s) on the forms every supported Python reads alike:
\* YYYY-MM-DD, optionally followed by one separator character and HH:MM:SS,
\* optionally followed by +HH:MM or -HH:MM.  (Reduced-precision times, basic
\* formats, fractions and the letter Z, which only newer Pythons read, are not
\* among the generated inputs.)
fromisoformat(s) ==
    LET match(f, seps) ==
            IF /\ Len(seps) \in {2, 5, 7}
               /\ SubSeq(seps, 1, 2) = <<"-", "-">>
               /\ Len(seps) >= 5 => SubSeq(seps, 4, 5) = <<":", ":">>
               /\ Len(seps) = 7 => seps[6] \in {"+", "-"} /\ seps[7] = ":"
               /\ Len(f[1]) = 4
               /\ \A k \in 2..Len(f) : Len(f[k]) = 2
               /\ Len(seps) = 7 => ToNat(f[7]) <= 23 /\ ToNat(f[8]) <= 59
            THEN datetime(SubSeq(f, 1, IF Len(f) > 6 THEN 6 ELSE Len(f)),
                          IF Len(seps) < 7 THEN Empty
                          ELSE IF ToNat(f[7]) = 0 /\ ToNat(f[8]) = 0
                          THEN <<"+","0","0",":","0","0">>
                          ELSE <<seps[6]>> \o f[7] \o <<":">> \o f[8])
            ELSE [err |-> "ValueError"]
    IN  match(Fields(s), SelectSeq(s, LAMBDA c : c \notin Digits))

\* Faulty variant: the fields printed without their leading zeros.
strftime_unpadded(dt, sep) ==
    NatToStr(dt.year) \o <<"-">> \o NatToStr(dt.month) \o <<"-">> \o NatToStr(dt.day)
    \o (IF sep = "" THEN Empty
        ELSE <<sep>> \o NatToStr(dt.hour) \o <<":">> \o NatToStr(dt.minute)
             \o <<":">> \o NatToStr(dt.second))

\* dt.strftime(format) for the three formats the codecs use, named by their
\* separator: "T" is "%Y-%m-%dT%H:%M:%S", " " is "%Y-%m-%d %H:%M:%S" and "" is
\* "%Y-%m-%d"; dt.isoformat() is the "T" form followed by the offset.  (Years
\* below 1000, which strftime pads differently from platform to platform, are
\* not among the generated inputs.)
strftime(dt, sep) ==
    LET pad(n, w) == Zeros(w - Len(NatToStr(n))) \o NatToStr(n)
    IN  pad(dt.year, 4) \o <<"-">> \o pad(dt.month, 2) \o <<"-">> \o pad(dt.day, 2)
        \o (IF sep = "" THEN Empty
            ELSE <<sep>> \o pad(dt.hour, 2) \o <<":">> \o pad(dt.minute, 2)
                 \o <<":">> \o pad(dt.second, 2))

\* common/transformers.to_fhir_datetime with parse_synthea_datetime and
\* format_fhir_datetime; None is written "".
to_fhir_datetime(value) ==
    LET before(s, stops) ==
            LET at == {i \in 1..Len(s) : s[i] \in stops}
            IN  IF at = {} THEN s
                ELSE SubSeq(s, 1, (CHOOSE i \in at : \A j \in at : i <= j) - 1)
        after(s, c) ==
            LET at == {i \in 1..Len(s) : s[i] = c}
            IN  SubSeq(s, (CHOOSE i \in at : \A j \in at : i <= j) + 1, Len(s))
        \* dt_str.split('T')[1].replace('Z', '').split('+')[0], then .split('.')[0]
        time_part(dt_str) ==
            before(SelectSeq(before(after(dt_str, "T"), {"T"}), LAMBDA c : c # "Z"),
                   {"+", "."})
        parse_synthea_datetime(dt_str) ==
            IF "T" \in Chars(dt_str)
            THEN fromisoformat(before(dt_str, {"T"}) \o <<"T">> \o time_part(dt_str))
            ELSE strptime(dt_str, " " \in Chars(dt_str))
        format_fhir_datetime(dt) ==
            IF dt.err # "" THEN Empty
            ELSE strftime(dt, "T") \o <<"+","0","0",":","0","0">>
    IN  IF value = Empty THEN Empty
        ELSE format_fhir_datetime(parse_synthea_datetime(value))

\* fhir_lib.format_datetime: fromisoformat(date_str.replace("Z", "+00:00"))
\* printed by isoformat(); None is written "".
format_datetime(date_str) ==
    LET replaced == [i \in 1..Len(date_str) |->
                        IF date_str[i] = "Z" THEN <<"+","0","0",":","0","0">>
                        ELSE <<date_str[i]>>]
        isoformat(dt) == IF dt.err # "" THEN Empty ELSE strftime(dt, "T") \o dt.tz
    IN  IF date_str = Empty \/ strip(date_str) = Empty THEN Empty
        ELSE isoformat(fromisoformat(Flatten(replaced)))

\* common/reverse_transformers.parse_fhir_datetime: a trailing Z, +HH:MM or
\* -HH:MM removed, then fromisoformat and strftime; None is written "".
parse_fhir_datetime(fhir_dt) ==
    LET n == Len(fhir_dt)
        offset == /\ n >= 6
                  /\ fhir_dt[n - 5] \in {"+", "-"}
                  /\ fhir_dt[n - 2] = ":"
                  /\ {fhir_dt[n - 4], fhir_dt[n - 3], fhir_dt[n - 1], fhir_dt[n]}
                        \subseteq Digits
        format(dt, sep) == IF dt.err # "" THEN Empty ELSE strftime(dt, sep)
        parse(dt_clean) ==
            format(fromisoformat(dt_clean), IF "T" \in Chars(dt_clean) THEN " " ELSE "")
    IN  IF fhir_dt = Empty THEN Empty
        ELSE parse(IF offset THEN SubSeq(fhir_dt, 1, n - 6)
                   ELSE IF fhir_dt[n] = "Z" THEN SubSeq(fhir_dt, 1, n - 1)
                   ELSE fhir_dt)

\* synthea_csv_lib.parse_datetime: the same conversion as fhir_lib's
\* format_datetime, with "" where that returns None.
parse_datetime(dt_str) ==
    IF dt_str = Empty THEN Empty ELSE format_datetime(dt_str)

\* ------------------------------------------------------------------ observation

ObservationCategorySystem ==
    "http://terminology.hl7.org/CodeSystem/observation-category"

\* to_fhir/observation.observation_category_mapping: the keys of the table.
observation_category_mapping ==
    {"vital-signs", "laboratory", "survey", "social-history", "imaging", "procedure"}

\* observation_category_lexicon.forward_get: a known key maps to its own
\* coding, any other key to the default coding "exam".
CategoryDisplay(code) ==
    CASE code = "vital-signs" -> "Vital Signs"
      [] code = "laboratory" -> "Laboratory"
      [] code = "survey" -> "Survey"
      [] code = "social-history" -> "Social History"
      [] code = "imaging" -> "Imaging"
      [] code = "procedure" -> "Procedure"
      [] code = "exam" -> "Exam"

observation_category_lexicon(key) ==
    LET code == IF key \in observation_category_mapping THEN key ELSE "exam"
    IN  [coding |-> <<[system |-> ObservationCategorySystem, code |-> code,
                       display |-> CategoryDisplay(code)]>>]

_is_numeric(value) == value # Empty /\ float(value) # NotANumber

_is_boolean(value) == lower(value) \in {<<"t","r","u","e">>, <<"f","a","l","s","e">>}

_convert_boolean(value) == lower(value) = <<"t","r","u","e">>

UnitsOfMeasure == "http://unitsofmeasure.org"

\* to_fhir/observation._build_value_element; None is the empty function.
_build_value_element(src) ==
    LET value == Get(src, "VALUE")
        units == Get(src, "UNITS")
        u == IF units # Empty THEN units ELSE <<"1">>
    IN  IF value = Empty THEN Empty
        ELSE IF _is_boolean(value)
        THEN "valueBoolean" :> _convert_boolean(value)
        ELSE IF _is_numeric(value)
        THEN "valueQuantity" :>
                [value |-> float(value), unit |-> u, code |-> u,
                 system |-> UnitsOfMeasure]
        ELSE "valueString" :> value

\* to_fhir/observation._build_code; None is the empty function.
_build_code(src) ==
    LET code == Get(src, "CODE")
        description == Get(src, "DESCRIPTION")
    IN  IF code = Empty THEN Empty
        ELSE "code" :> [coding |-> <<[system |-> "http://loinc.org", code |-> code,
                                      display |-> description]>>,
                        text |-> description]

\* to_fhir/observation._generate_id
_generate_id(src) ==
    LET patient == Get(src, "PATIENT")
        date == Get(src, "DATE")
        code == Get(src, "CODE")
    IN  IF patient # Empty /\ date # Empty /\ code # Empty
        THEN <<"o","b","s","-">> \o patient \o <<"-">>
                \o SelectSeq(date, LAMBDA c : c \notin {" ", ":", "-"})
                \o <<"-">> \o code
        ELSE Empty

\* to_fhir/observation.observation_transform with filter_none_values applied:
\* a None, "" or [] entry is dropped.
observation_transform(src) ==
    ("resourceType" :> "Observation")
    @@ Opt("id", _generate_id(src))
    @@ ("status" :> "final")
    @@ _build_code(src)
    @@ (IF Get(src, "PATIENT") # Empty
        THEN "subject" :> create_reference("Patient", Get(src, "PATIENT"))
        ELSE Empty)
    @@ (IF Get(src, "ENCOUNTER") # Empty
        THEN "encounter" :> create_reference("Encounter", Get(src, "ENCOUNTER"))
        ELSE Empty)
    @@ Opt("effectiveDateTime", to_fhir_datetime(Get(src, "DATE")))
    @@ Opt("issued", to_fhir_datetime(Get(src, "DATE")))
    @@ (IF src.TYPE # ""
        THEN "category" :> <<observation_category_lexicon(src.TYPE)>>
        ELSE Empty)
    @@ _build_value_element(src)

map_observation(synthea_observation) == observation_transform(synthea_observation)

\* fhir_mappers/observation.map_observation: every column stripped, the id
\* always set, a blank part left out of the resource.  (TYPE is one of the
\* lower-case words of ObservationRows, which lower() and strip() leave as
\* they are.)
lib_map_observation(csv_row) ==
    LET col(c) == strip(Get(csv_row, c))
        \* .replace(" ", "-").replace(":", "-")
        dashed(s) == [i \in 1..Len(s) |-> IF s[i] \in {" ", ":"} THEN "-" ELSE s[i]]
        resource_id == dashed(col("PATIENT") \o <<"-">> \o col("DATE") \o <<"-">> \o col("CODE"))
        coding == [system |-> "http://loinc.org", code |-> col("CODE")]
                  @@ Opt("display", col("DESCRIPTION"))
        code_obj == (IF col("CODE") = Empty THEN Empty ELSE "coding" :> <<coding>>)
                    @@ Opt("text", col("DESCRIPTION"))
        display(category_type) ==
            CASE category_type = "vital-signs" -> "Vital Signs"
              [] category_type = "laboratory" -> "Laboratory"
              [] category_type = "survey" -> "Survey"
              [] category_type = "social-history" -> "Social History"
              [] category_type = "imaging" -> "Imaging"
              [] category_type = "procedure" -> "Procedure"
        normalize_category(category_type) ==
            IF category_type \in {"vital-signs", "laboratory", "survey", "social-history",
                                  "imaging", "procedure"}
            THEN "category" :>
                    <<[coding |-> <<[system |-> ObservationCategorySystem,
                                     code |-> category_type,
                                     display |-> display(category_type)]>>]>>
            ELSE Empty
        quantity(numeric_value, units) ==
            [value |-> numeric_value, unit |-> units, code |-> units,
             system |-> "http://unitsofmeasure.org"]
        value(value_str) ==
            IF value_str = Empty THEN Empty
            ELSE IF float(value_str) # NotANumber
            THEN "valueQuantity" :>
                    quantity(float(value_str),
                             IF col("UNITS") # Empty THEN col("UNITS") ELSE <<"1">>)
            ELSE IF lower(value_str) \in {<<"t","r","u","e">>, <<"f","a","l","s","e">>}
            THEN "valueBoolean" :> (lower(value_str) = <<"t","r","u","e">>)
            ELSE "valueString" :> value_str
    IN  ("resourceType" :> "Observation")
        @@ ("id" :> resource_id)
        @@ ("status" :> "final")
        @@ Opt("effectiveDateTime", format_datetime(col("DATE")))
        @@ Opt("subject", lib_create_reference("Patient", col("PATIENT")))
        @@ Opt("encounter", lib_create_reference("Encounter", col("ENCOUNTER")))
        @@ Opt("code", code_obj)
        @@ normalize_category(csv_row.TYPE)
        @@ value(col("VALUE"))

\* common/reverse_lexicons.determine_observation_type
determine_observation_type(fhir_observation) ==
    IF "valueQuantity" \in DOMAIN fhir_observation THEN "numeric"
    ELSE IF "valueInteger" \in DOMAIN fhir_observation THEN "numeric"
    ELSE IF "valueDecimal" \in DOMAIN fhir_observation THEN "numeric"
    ELSE "text"

\* Faulty variant: a whole number rendered as the float prints, with its ".0".
FormatNumberKeepDotZero(value) ==
    LET i == int_float(value)
    IN  IF i.err # "" THEN [err |-> i.err, s |-> Empty]
        ELSE [err |-> "", s |-> str_float(value)]

\* The rendering shared by the valueQuantity and valueDecimal branches of
\* extract_value_and_unit: value == int(value) is evaluated first, and int()
\* raises on NaN and on an infinity.
FormatNumber(value) ==
    LET i == int_float(value)
    IN  IF i.err # "" THEN [err |-> i.err, s |-> Empty]
        ELSE IF IsWhole(value) THEN [err |-> "", s |-> str_int(i.n)]
        ELSE [err |-> "", s |-> str_float(value)]

\* common/reverse_lexicons.extract_value_and_unit; None is written "".
extract_value_and_unit(fhir_observation) ==
    IF "valueQuantity" \in DOMAIN fhir_observation
    THEN LET quantity == fhir_observation["valueQuantity"]
             unit == IF Get(quantity, "unit") # Empty THEN Get(quantity, "unit")
                     ELSE Get(quantity, "code")
             f == FormatNumber(quantity.value)
         IN  [err |-> f.err, value |-> f.s, unit |-> unit]
    ELSE IF "valueInteger" \in DOMAIN fhir_observation
    THEN [err |-> "", value |-> str_int(fhir_observation["valueInteger"]),
          unit |-> Empty]
    ELSE IF "valueDecimal" \in DOMAIN fhir_observation
    THEN LET f == FormatNumber(fhir_observation["valueDecimal"])
         IN  [err |-> f.err, value |-> f.s, unit |-> Empty]
    ELSE IF "valueString" \in DOMAIN fhir_observation
    THEN [err |-> "", value |-> fhir_observation["valueString"], unit |-> Empty]
    ELSE IF "valueBoolean" \in DOMAIN fhir_observation
    THEN [err |-> "",
          value |-> IF fhir_observation["valueBoolean"]
                    THEN <<"t","r","u","e">> ELSE <<"f","a","l","s","e">>,
          unit |-> Empty]
    ELSE [err |-> "", value |-> Empty, unit |-> Empty]

\* common/reverse_lexicons.extract_observation_category_from_codeable_concept;
\* None is written "".
extract_observation_category_from_codeable_concept(categories) ==
    IF categories = Empty THEN ""
    ELSE LET coding == categories[1].coding
             hits == {i \in 1..Len(coding) :
                        /\ coding[i].system = ObservationCategorySystem
                        /\ coding[i].code \in observation_category_mapping \cup {"exam"}}
         IN  IF coding = Empty THEN ""
             ELSE IF hits = {} THEN "exam"
             ELSE coding[CHOOSE i \in hits : \A j \in hits : i <= j].code

\* to_synthea_csv/observation.fhir_observation_to_csv_transform: the LOINC
\* coding, else the text, else the first coding.
ObservationCodeAndDescription(fhir_observation) ==
    IF "code" \notin DOMAIN fhir_observation THEN [code |-> Empty, description |-> Empty]
    ELSE LET cc == fhir_observation["code"]
             hits == {i \in 1..Len(cc.coding) : cc.coding[i].system = "http://loinc.org"}
             loinc == IF hits = {} THEN Empty
                      ELSE cc.coding[CHOOSE i \in hits : \A j \in hits : i <= j]
             c1 == Get(loinc, "code")
             d1 == IF Get(loinc, "display") # Empty THEN Get(loinc, "display")
                   ELSE Get(cc, "text")
             first == IF cc.coding = Empty THEN Empty ELSE cc.coding[1]
         IN  [code |-> IF c1 # Empty THEN c1 ELSE Get(first, "code"),
              description |-> IF d1 # Empty THEN d1 ELSE Get(first, "display")]

\* to_synthea_csv/observation.fhir_observation_to_csv_transform with its
\* filter_none_values (None becomes "").
fhir_observation_to_csv_transform(fhir_observation) ==
    LET vu == extract_value_and_unit(fhir_observation)
        cd == ObservationCodeAndDescription(fhir_observation)
        date(effective) ==
            IF effective # Empty THEN effective
            ELSE parse_fhir_datetime(Get(fhir_observation, "issued"))
    IN  [err |-> vu.err,
         row |-> [DATE |-> date(parse_fhir_datetime(Get(fhir_observation, "effectiveDateTime"))),
                  PATIENT |-> extract_reference_id(Get(fhir_observation, "subject")),
                  ENCOUNTER |-> extract_reference_id(Get(fhir_observation, "encounter")),
                  CATEGORY |-> extract_observation_category_from_codeable_concept(
                                  Get(fhir_observation, "category")),
                  CODE |-> cd.code,
                  DESCRIPTION |-> cd.description,
                  VALUE |-> vu.value,
                  UNITS |-> vu.unit,
                  TYPE |-> determine_observation_type(fhir_observation)]]

\* to_synthea_csv/observation.map_fhir_observation_to_csv
map_fhir_observation_to_csv(fhir_observation) ==
    IF fhir_observation = Empty \/ Get(fhir_observation, "resourceType") # "Observation"
    THEN [err |-> "ValueError", row |-> Empty]
    ELSE fhir_observation_to_csv_transform(fhir_observation)

\* ------------------------------------------------------------------ observation rows

NumStrings == SeqsUpTo({"0", "1", ".", "-"}, MaxNumLen)

\* Values outside the short numeric alphabet: the floats that are not finite,
\* boolean literals in several letter cases, free text, a padded number, a
\* padded word and a padded boolean literal.
ValueWords ==
    {<<"n","a","n">>, <<"i","n","f">>, <<"-","i","n","f">>,
     <<"t","r","u","e">>, <<"T","r","u","e">>, <<"F","A","L","S","E">>,
     <<"f","a","l","s","e">>, <<"a">>, <<"A"," ","b">>, <<" ","1"," ">>,
     <<" ","a">>, <<" ","t","r","u","e"," ">>}

UnitStrings == {Empty, <<"c","m">>}

\* The observations rows: those that vary the VALUE and carry no DATE column,
\* and those that vary the DATE, in both forms Synthea writes it, the
\* DESCRIPTION and a PATIENT with a space in it, and carry a CATEGORY beside
\* the TYPE.
ObservationRows ==
    [PATIENT : {Empty, <<"p">>}, ENCOUNTER : {Empty, <<"e">>},
     CODE : {Empty, <<"8">>}, DESCRIPTION : {<<"H">>},
     VALUE : NumStrings \cup ValueWords, UNITS : UnitStrings,
     TYPE : {"", "numeric", "text", "vital-signs"}]

DatedObservationRows ==
    [DATE : {Empty, <<"2","0","2","0","-","0","1","-","0","2"," ","0","3",":","0","4",":","0","5">>,
             <<"2","0","2","0","-","0","1","-","0","2","T","0","3",":","0","4",":","0","5","Z">>},
     PATIENT : {Empty, <<"p">>, <<"p"," ","1">>}, ENCOUNTER : {Empty, <<"e">>},
     CODE : {Empty, <<"8">>}, DESCRIPTION : {Empty, <<"H">>},
     VALUE : {Empty, <<"1">>}, UNITS : {Empty},
     CATEGORY : {"vital-signs", "laboratory"},
     TYPE : {"", "numeric", "vital-signs"}]

MaxInt == 11

FiniteFloats == {float(s) : s \in NumStrings} \ {NotANumber}

\* Observations a caller hands to the reverse mapper directly, one for each
\* numeric value[x] form.
GivenObservations ==
    {("resourceType" :> "Observation") @@ ("status" :> "final")
        @@ ("valueQuantity" :> q) :
        q \in [value : FiniteFloats, unit : UnitStrings, code : UnitStrings,
               system : {UnitsOfMeasure}]}
    \cup {("resourceType" :> "Observation") @@ ("status" :> "final")
            @@ ("valueDecimal" :> f) : f \in FiniteFloats}
    \cup {("resourceType" :> "Observation") @@ ("status" :> "final")
            @@ ("valueInteger" :> n) : n \in (0 - MaxInt)..MaxInt}

InitObs ==
    /\ mapper = "observation"
    /\ \/ /\ tree = 1
          /\ pc = "start"
          /\ row \in ObservationRows \cup DatedObservationRows
          /\ res = Empty
       \/ /\ tree = 2
          /\ pc = "start"
          /\ row \in ObservationRows \cup DatedObservationRows
          /\ res = Empty
       \/ /\ tree = 1
          /\ pc = "given"
          /\ row = Empty
          /\ res \in GivenObservations
    /\ csv = Empty
    /\ err = ""

\* map_observation of either tree applied to the row.
MapObservation ==
    /\ mapper = "observation"
    /\ pc = "start"
    /\ res' = IF tree = 1 THEN map_observation(row) ELSE lib_map_observation(row)
    /\ pc' = "mapped"
    /\ UNCHANGED <<mapper, tree, row, csv, err>>

\* map_fhir_observation_to_csv (tree 1) applied to the resource.
MapFhirObservationToCsv ==
    /\ mapper = "observation"
    /\ tree = 1
    /\ pc \in {"mapped", "given"}
    /\ LET r == map_fhir_observation_to_csv(res)
       IN  /\ csv' = r.row
           /\ err' = r.err
           /\ pc' = IF r.err = "" THEN "reversed" ELSE "raised"
    /\ UNCHANGED <<mapper, tree, row, res>>

NextObs == MapObservation \/ MapFhirObservationToCsv

SpecObs == InitObs /\ [][NextObs]_vars

\* ------------------------------------------------------------------ claims C1..C3

\* An integer or decimal literal: float() accepts it and the result is finite.
IsNumberLiteral(v) == float(v) # NotANumber /\ IsFinite(float(v))

IsBooleanLiteral(v) == lower(v) \in {<<"t","r","u","e">>, <<"f","a","l","s","e">>}

\* The only normalisation the value codec is said to apply: a trailing ".0"
\* dropped from a whole number.
StripDotZero(v) ==
    IF /\ IsNumberLiteral(v)
       /\ Len(v) > 2
       /\ SubSeq(v, Len(v) - 1, Len(v)) = <<".", "0">>
    THEN SubSeq(v, 1, Len(v) - 2)
    ELSE v

RoundTripped == pc \in {"reversed", "raised"} /\ row # Empty

\* C1: for every observations row with a non-empty VALUE, with or without
\* UNITS, map_fhir_observation_to_csv(map_observation(row)) returns the VALUE
\* with at most a trailing ".0" stripped, the original UNITS (empty when there
\* were none) and TYPE numeric for a number, text otherwise.
C1_ValueCodecRoundTrip ==
    (mapper = "observation" /\ RoundTripped /\ row.VALUE # Empty) =>
        /\ pc = "reversed"
        /\ csv.VALUE = StripDotZero(row.VALUE)
        /\ csv.UNITS = row.UNITS
        /\ csv.TYPE = (IF IsNumberLiteral(row.VALUE) /\ ~IsBooleanLiteral(row.VALUE)
                       THEN "numeric" ELSE "text")

ValueKeys(resource) ==
    DOMAIN resource \cap {"valueBoolean", "valueQuantity", "valueString",
                          "valueInteger", "valueDecimal", "valueCodeableConcept"}

\* C2: map_observation emits at most one value[x]: none for an empty VALUE,
\* valueBoolean for true/false in any letter case, valueQuantity (value the
\* number, unit = code = UNITS or "1", system unitsofmeasure.org) for an
\* integer or decimal number, valueString verbatim in every other case.
C2_ValueElementPriority ==
    (mapper = "observation" /\ pc = "mapped") =>
        LET v == row.VALUE
            u == IF row.UNITS = Empty THEN <<"1">> ELSE row.UNITS
        IN  /\ Cardinality(ValueKeys(res)) <= 1
            /\ v = Empty => ValueKeys(res) = {}
            /\ (v # Empty /\ IsBooleanLiteral(v)) =>
                  /\ ValueKeys(res) = {"valueBoolean"}
                  /\ res["valueBoolean"] = (lower(v) = <<"t","r","u","e">>)
            /\ (v # Empty /\ ~IsBooleanLiteral(v) /\ IsNumberLiteral(v)) =>
                  /\ ValueKeys(res) = {"valueQuantity"}
                  /\ res["valueQuantity"] =
                        [value |-> float(v), unit |-> u, code |-> u,
                         system |-> "http://unitsofmeasure.org"]
            /\ (v # Empty /\ ~IsBooleanLiteral(v) /\ ~IsNumberLiteral(v)) =>
                  /\ ValueKeys(res) = {"valueString"}
                  /\ res["valueString"] = v

\* The number a numeric value[x] holds, as a float.
NumericValue(resource) ==
    IF "valueQuantity" \in DOMAIN resource THEN resource["valueQuantity"].value
    ELSE IF "valueInteger" \in DOMAIN resource
    THEN LET n == resource["valueInteger"]
         IN  Normal(n < 0, IF n < 0 THEN 0 - n ELSE n, 0)
    ELSE resource["valueDecimal"]

HoldsNumber(resource) ==
    /\ ValueKeys(resource) \cap {"valueQuantity", "valueInteger", "valueDecimal"} # {}
    /\ IsFinite(NumericValue(resource))

Decoded == mapper = "observation" /\ pc \in {"reversed", "raised"}

\* C3: for an Observation whose valueQuantity, valueDecimal or valueInteger
\* holds a number, the reverse mapper returns a VALUE with no decimal point
\* when the number is whole and with its decimal digits otherwise, and TYPE
\* numeric.
C3_WholeNumbersWithoutPoint ==
    (Decoded /\ HoldsNumber(res)) =>
        LET x == NumericValue(res)
        IN  /\ pc = "reversed"
            /\ csv.TYPE = "numeric"
            /\ NumEq(float(csv.VALUE), x)
            /\ IsWhole(x) <=> "." \notin Chars(csv.VALUE)
            /\ IsWhole(x) => int_str(csv.VALUE).err = ""

\* A whole quantity, 1.0, has been decoded.
C3_Witness ==
    /\ Decoded
    /\ "valueQuantity" \in DOMAIN res
    /\ res["valueQuantity"].value = Normal(FALSE, 1, 0)
    /\ csv.VALUE = <<"1">>

\* ------------------------------------------------------------------ claims C18, C20

\* C18: in the Observation a forward mapper returns, no key at any depth holds
\* a null (written Empty): not a top-level field, not the text of the code or
\* the code and display of each of its codings, not the reference of the
\* subject or of the encounter, not the unit or code of the valueQuantity.
C18_NoNullAtAnyDepth ==
    (mapper = "observation" /\ pc = "mapped") =>
        LET set(d, keys) == \A k \in DOMAIN d \cap keys : d[k] # Empty
            codings == Get(Get(res, "code"), "coding")
        IN  /\ set(res, {"id", "code", "subject", "encounter", "effectiveDateTime",
                         "issued", "category", "valueQuantity", "valueString"})
            /\ set(Get(res, "code"), {"coding", "text"})
            /\ \A i \in 1..Len(codings) : set(codings[i], {"code", "display"})
            /\ set(Get(res, "subject"), {"reference"})
            /\ set(Get(res, "encounter"), {"reference"})
            /\ set(Get(res, "valueQuantity"), {"unit", "code"})

\* C20: for an observations row with a PATIENT, a DATE and a CODE, the id the
\* forward mapper of either tree generates is the PATIENT, the DATE with its
\* spaces and colons removed, and the CODE, joined with "-": a value that
\* depends on the row alone, and so is the same from both trees.
C20_GeneratedId ==
    (/\ mapper = "observation" /\ pc = "mapped"
     /\ Get(row, "PATIENT") # Empty /\ Get(row, "DATE") # Empty /\ Get(row, "CODE") # Empty) =>
        Get(res, "id") = row.PATIENT \o <<"-">>
                            \o SelectSeq(row.DATE, LAMBDA c : c \notin {" ", ":"})
                            \o <<"-">> \o row.CODE

\* C25: for every VALUE string the two forward Observation mappers produce the
\* same value[x]: the same one of valueBoolean, valueQuantity and valueString,
\* holding the same value.
C25_SameValueElement ==
    (mapper = "observation" /\ pc = "mapped") =>
        LET element(resource) == [k \in ValueKeys(resource) |-> resource[k]]
        IN  element(res) = element(IF tree = 1 THEN lib_map_observation(row)
                                   ELSE map_observation(row))

\* C26: the reverse mapper applied to the Observation the forward mapper
\* produced for a row returns a row and does not raise, in particular when
\* the forward mapper wrote the VALUE as a valueQuantity.
C26_ReverseOfForwardReturns ==
    (mapper = "observation" /\ row # Empty /\ pc \in {"reversed", "raised"}) =>
        /\ pc = "reversed"
        /\ err = ""

\* C23: for an observations row whose CATEGORY is vital-signs, laboratory,
\* survey or social-history, whatever its TYPE, map_observation emits a first
\* category coding with the observation-category system and the row's CATEGORY
\* as code, and map_fhir_observation_to_csv returns the original CATEGORY.
C23_CategoryFromCategoryColumn ==
    (/\ mapper = "observation" /\ pc \in {"mapped", "reversed"}
     /\ "CATEGORY" \in DOMAIN row
     /\ row.CATEGORY \in {"vital-signs", "laboratory", "survey", "social-history"}) =>
        /\ "category" \in DOMAIN res
        /\ res["category"][1].coding[1].system = ObservationCategorySystem
        /\ res["category"][1].coding[1].code = row.CATEGORY
        /\ pc = "reversed" => csv.CATEGORY = row.CATEGORY

\* ------------------------------------------------------------------ payer

PAYER_OWNERSHIP_URL == "http://synthea.mitre.org/fhir/StructureDefinition/payer-ownership"

PAYER_STATS_URL == "http://synthea.mitre.org/fhir/StructureDefinition/payer-stats"

\* The statistics columns in the order the forward mappers add them, with the
\* sub-extension url and the value[x] each is written as.
StatsFields ==
    <<[col |-> "Amount_Covered", url |-> "amountCovered", kind |-> "valueDecimal"],
      [col |-> "Amount_Uncovered", url |-> "amountUncovered", kind |-> "valueDecimal"],
      [col |-> "Revenue", url |-> "revenue", kind |-> "valueDecimal"],
      [col |-> "Covered_Encounters", url |-> "coveredEncounters", kind |-> "valueInteger"],
      [col |-> "Uncovered_Encounters", url |-> "uncoveredEncounters", kind |-> "valueInteger"],
      [col |-> "Covered_Medications", url |-> "coveredMedications", kind |-> "valueInteger"],
      [col |-> "Uncovered_Medications", url |-> "uncoveredMedications", kind |-> "valueInteger"],
      [col |-> "Covered_Procedures", url |-> "coveredProcedures", kind |-> "valueInteger"],
      [col |-> "Uncovered_Procedures", url |-> "uncoveredProcedures", kind |-> "valueInteger"],
      [col |-> "Covered_Immunizations", url |-> "coveredImmunizations", kind |-> "valueInteger"],
      [col |-> "Uncovered_Immunizations", url |-> "uncoveredImmunizations", kind |-> "valueInteger"],
      [col |-> "Unique_Customers", url |-> "uniqueCustomers", kind |-> "valueInteger"],
      [col |-> "QOLS_Avg", url |-> "qolsAvg", kind |-> "valueDecimal"],
      [col |-> "Member_Months", url |-> "memberMonths", kind |-> "valueInteger"]>>

\* re.split(r"[;,/|]", s)
RECURSIVE re_split(_)
re_split(s) ==
    LET seps == {i \in 1..Len(s) : s[i] \in {";", ",", "/", "|"}}
        i == CHOOSE k \in seps : \A j \in seps : k <= j
    IN  IF seps = {} THEN <<s>>
        ELSE <<SubSeq(s, 1, i - 1)>> \o re_split(SubSeq(s, i + 1, Len(s)))

\* to_fhir/payer._split_phones (and split_phones of fhir_mappers/payer)
_split_phones(phone_field) ==
    IF phone_field = Empty THEN Empty
    ELSE LET parts == re_split(phone_field)
         IN  SelectSeq([i \in 1..Len(parts) |-> strip(parts[i])],
                       LAMBDA q : q # Empty)

\* "; ".join(phones)
RECURSIVE join_phones(_)
join_phones(phones) ==
    IF phones = Empty THEN Empty
    ELSE IF Len(phones) = 1 THEN phones[1]
    ELSE phones[1] \o <<";", " ">> \o join_phones(Tail(phones))

\* The address block shared by both forward payer mappers; None is the empty
\* function.
payer_build_address(line, city, state, postal_code) ==
    (IF line # Empty THEN "line" :> <<line>> ELSE Empty)
    @@ Opt("city", city) @@ Opt("state", state) @@ Opt("postalCode", postal_code)

\* Faulty variant: the parsed value tested for truth, so that a zero is dropped.
add_decimal_drops_zero(url_key, value) ==
    IF value = Empty \/ float(value) = NotANumber THEN Empty
    ELSE IF float(value).k = "fin" /\ float(value).m = 0 THEN Empty
    ELSE <<[url |-> url_key, valueDecimal |-> float(value)]>>

\* to_fhir/payer._build_extensions.add_decimal: the entries appended (none or
\* one).
add_decimal(url_key, value) ==
    IF value = Empty \/ float(value) = NotANumber THEN Empty
    ELSE <<[url |-> url_key, valueDecimal |-> float(value)]>>

\* to_fhir/payer._build_extensions.add_integer: int(float(str(value))) with
\* ValueError and TypeError caught; the OverflowError of an infinity escapes.
add_integer(url_key, value) ==
    LET \* i: what int() did with the float
        append(i) ==
            IF i.err = "ValueError" THEN [err |-> "", exts |-> Empty]
            ELSE IF i.err # "" THEN [err |-> i.err, exts |-> Empty]
            ELSE [err |-> "", exts |-> <<[url |-> url_key, valueInteger |-> i.n]>>]
        \* f: what float() did with the string
        convert(f) ==
            IF value = Empty \/ f = NotANumber THEN [err |-> "", exts |-> Empty]
            ELSE append(int_float(f))
    IN  convert(float(value))

\* to_fhir/payer._build_extensions
payer_build_extensions(src) ==
    LET ownership == Get(src, "Ownership")
        own == IF ownership = Empty THEN Empty
               ELSE <<[url |-> PAYER_OWNERSHIP_URL, valueCode |-> lower(ownership)]>>
        add(f) == IF f.kind = "valueDecimal"
                  THEN [err |-> "", exts |-> add_decimal(f.url, Get(src, f.col))]
                  ELSE add_integer(f.url, Get(src, f.col))
        \* added: what each add_decimal / add_integer call did, in order.
        build(added) ==
            LET failed == {i \in 1..Len(added) : added[i].err # ""}
                wrap(sub_exts) ==
                    own \o (IF sub_exts = Empty THEN Empty
                            ELSE <<[url |-> PAYER_STATS_URL, extension |-> sub_exts]>>)
            IN  IF failed # {}
                THEN [err |-> added[CHOOSE i \in failed : \A j \in failed : i <= j].err,
                      exts |-> Empty]
                ELSE [err |-> "",
                      exts |-> wrap(Flatten([i \in 1..Len(added) |-> added[i].exts]))]
    IN  CHOOSE r \in {build(a) : a \in {[i \in 1..Len(StatsFields) |->
                                            add(StatsFields[i])]}} : TRUE

PayerType ==
    <<[coding |-> <<[system |-> "http://terminology.hl7.org/CodeSystem/organization-type",
                     code |-> "ins", display |-> "Insurance Company"]>>]>>

\* to_fhir/payer.payer_transform with its filter_none_values.
payer_transform(src) ==
    LET address == payer_build_address(Get(src, "Address"), Get(src, "City"),
                       Get(src, "State_Headquartered"), Get(src, "Zip"))
        phones == _split_phones(Get(src, "Phone"))
        e == payer_build_extensions(src)
    IN  [err |-> e.err,
         res |-> IF e.err # "" THEN Empty
                 ELSE ("resourceType" :> "Organization")
                      @@ Opt("id", Get(src, "Id"))
                      @@ Opt("name", Get(src, "Name"))
                      @@ ("type" :> PayerType)
                      @@ (IF address = Empty THEN Empty ELSE "address" :> <<address>>)
                      @@ Opt("telecom", [i \in 1..Len(phones) |->
                                            [system |-> "phone", value |-> phones[i]]])
                      @@ Opt("extension", e.exts)]

map_payer(synthea_payer) == payer_transform(synthea_payer)

\* str(val) on the number a statistics sub-extension holds.
StatToStr(e) ==
    IF "valueDecimal" \in DOMAIN e THEN str_float(e.valueDecimal)
    ELSE IF "valueInteger" \in DOMAIN e THEN str_int(e.valueInteger)
    ELSE Empty

\* to_synthea_csv/payer._extract_stats: for each column the first
\* sub-extension with its url, decimal preferred to integer.
_extract_stats(org) ==
    LET stats_ext == extract_extension_by_url(Get(org, "extension"), PAYER_STATS_URL)
        sub_exts == Get(stats_ext, "extension")
        take(url_key) ==
            LET hits == {i \in 1..Len(sub_exts) :
                            /\ sub_exts[i].url = url_key
                            /\ DOMAIN sub_exts[i] \cap {"valueDecimal", "valueInteger"} # {}}
            IN  IF hits = {} THEN Empty
                ELSE StatToStr(sub_exts[CHOOSE i \in hits : \A j \in hits : i <= j])
    IN  [c \in {StatsFields[i].col : i \in 1..Len(StatsFields)} |->
            take((CHOOSE f \in {StatsFields[i] : i \in 1..Len(StatsFields)} :
                    f.col = c).url)]

\* to_synthea_csv/payer.fhir_organization_to_payer_csv_transform with
\* _extract_address, _extract_phone, _extract_ownership and
\* filter_none_to_empty.
fhir_organization_to_payer_csv_transform(fhir_org) ==
    LET addresses == Get(fhir_org, "address")
        addr == IF addresses = Empty THEN Empty ELSE addresses[1]
        line == Get(addr, "line")
        telecom == Get(fhir_org, "telecom")
        phones == SelectSeq(telecom, LAMBDA t : t.system = "phone" /\ t.value # Empty)
        own == extract_extension_by_url(Get(fhir_org, "extension"), PAYER_OWNERSHIP_URL)
    IN  [Id |-> Get(fhir_org, "id"),
         Name |-> Get(fhir_org, "name"),
         Ownership |-> Get(own, "valueCode"),
         Address |-> IF line = Empty THEN Empty ELSE line[1],
         City |-> Get(addr, "city"),
         State_Headquartered |-> Get(addr, "state"),
         Zip |-> Get(addr, "postalCode"),
         Phone |-> join_phones([i \in 1..Len(phones) |-> phones[i].value])]
        @@ _extract_stats(fhir_org)

\* to_synthea_csv/payer.map_fhir_payer_to_csv
map_fhir_payer_to_csv(fhir_org) ==
    IF fhir_org = Empty \/ Get(fhir_org, "resourceType") # "Organization"
    THEN [err |-> "ValueError", row |-> Empty]
    ELSE [err |-> "", row |-> fhir_organization_to_payer_csv_transform(fhir_org)]

\* fhir_mappers/payer.map_payer: every column stripped, the count columns
\* parsed by int(), nothing filtered from the resource.
lib_map_payer(csv_row) ==
    LET col(c) == strip(Get(csv_row, c))
        address == payer_build_address(col("Address"), col("City"),
                       col("State_Headquartered"), col("Zip"))
        phones == _split_phones(col("Phone"))
        own == IF col("Ownership") = Empty THEN Empty
               ELSE <<[url |-> PAYER_OWNERSHIP_URL,
                       valueCode |-> strip(lower(col("Ownership")))]>>
        stat(f) ==
            IF col(f.col) = Empty THEN Empty
            ELSE IF f.kind = "valueDecimal"
            THEN add_decimal(f.url, col(f.col))
            ELSE IF int_str(col(f.col)).err # "" THEN Empty
            ELSE <<[url |-> f.url, valueInteger |-> int_str(col(f.col)).n]>>
        sub_exts == Flatten([i \in 1..Len(StatsFields) |-> stat(StatsFields[i])])
        extensions == own \o (IF sub_exts = Empty THEN Empty
                              ELSE <<[url |-> PAYER_STATS_URL, extension |-> sub_exts]>>)
    IN  ("resourceType" :> "Organization")
        @@ ("id" :> col("Id"))
        @@ Opt("name", col("Name"))
        @@ ("type" :> PayerType)
        @@ (IF address = Empty THEN Empty ELSE "address" :> <<address>>)
        @@ Opt("telecom", [i \in 1..Len(phones) |->
                              [system |-> "phone", value |-> phones[i]]])
        @@ Opt("extension", extensions)

\* synthea_csv_lib.extract_nested_extension: the first sub-extension, under any
\* parent with the url, that has the nested url and a value of the given type.
extract_nested_extension(fhir_resource, extension_url, nested_url, value_type) ==
    LET extensions == Get(fhir_resource, "extension")
        nested == Flatten([i \in 1..Len(extensions) |->
                     IF extensions[i].url = extension_url
                     THEN Get(extensions[i], "extension") ELSE Empty])
        hits == {i \in 1..Len(nested) :
                    nested[i].url = nested_url /\ value_type \in DOMAIN nested[i]}
        e == nested[CHOOSE i \in hits : \A j \in hits : i <= j]
    IN  IF hits = {} THEN Empty
        ELSE IF value_type = "valueDecimal" THEN str_float(e.valueDecimal)
        ELSE str_int(e.valueInteger)

\* synthea_csv_mappers/payer.map_fhir_payer_to_csv: no resourceType test.
lib_map_fhir_payer_to_csv(fhir_resource) ==
    LET addresses == Get(fhir_resource, "address")
        addr == IF addresses = Empty THEN Empty ELSE addresses[1]
        line == Get(addr, "line")
        telecom == Get(fhir_resource, "telecom")
        phones == SelectSeq(telecom, LAMBDA t : t.system = "phone" /\ t.value # Empty)
        extensions == Get(fhir_resource, "extension")
        owns == {i \in 1..Len(extensions) :
                    /\ extensions[i].url = PAYER_OWNERSHIP_URL
                    /\ Get(extensions[i], "valueCode") # Empty}
    IN  [Id |-> Get(fhir_resource, "id"),
         Name |-> Get(fhir_resource, "name"),
         Ownership |-> IF owns = {} THEN Empty
                       ELSE extensions[CHOOSE i \in owns : \A j \in owns : i <= j].valueCode,
         Address |-> IF line = Empty THEN Empty ELSE line[1],
         City |-> Get(addr, "city"),
         State_Headquartered |-> Get(addr, "state"),
         Zip |-> Get(addr, "postalCode"),
         Phone |-> join_phones([i \in 1..Len(phones) |-> phones[i].value])]
        @@ [c \in {StatsFields[i].col : i \in 1..Len(StatsFields)} |->
              LET f == CHOOSE g \in {StatsFields[i] : i \in 1..Len(StatsFields)} : g.col = c
              IN  extract_nested_extension(fhir_resource, PAYER_STATS_URL, f.url, f.kind)]

\* ------------------------------------------------------------------ payer rows

StatsColumns == {StatsFields[i].col : i \in 1..Len(StatsFields)}

TextColumns ==
    {"Id", "Name", "Ownership", "Address", "City", "State_Headquartered", "Zip", "Phone"}

\* What a statistics column is tried with: the short numeric strings, the
\* floats that are not finite, a padded number, text.
StatValues ==
    NumStrings \cup {<<"n","a","n">>, <<"i","n","f">>, <<" ","7"," ">>, <<"x">>}

TextStrings == SeqsUpTo({"a", "A", " "}, MaxTextLen)

\* A payers row with every column empty, or every column holding a plain
\* value.
PayerBaseRow(full) ==
    [c \in StatsColumns \cup TextColumns |->
        IF ~full THEN Empty
        ELSE IF c \in StatsColumns THEN <<"2">>
        ELSE IF c = "Phone" THEN <<"5", ";", " ", "6">>
        ELSE <<"b">>]

\* The payers rows: a base row with one column replaced.
PayerRows ==
    {[PayerBaseRow(full) EXCEPT ![c] = v] :
        full \in BOOLEAN, c \in StatsColumns, v \in StatValues}
    \cup {[PayerBaseRow(full) EXCEPT ![c] = v] :
            full \in BOOLEAN, c \in TextColumns, v \in TextStrings}

\* Resources of another type that a caller hands to a reverse mapper.
ForeignResources ==
    {("resourceType" :> t) @@ ("id" :> <<"r">>) : t \in {"Patient", "Observation"}}

InitPayer ==
    /\ mapper = "payer"
    /\ tree \in {1, 2}
    /\ \/ /\ pc = "start"
          /\ row \in PayerRows
          /\ res = Empty
       \/ /\ pc = "given"
          /\ row = Empty
          /\ res \in ForeignResources
    /\ csv = Empty
    /\ err = ""

\* to_fhir/payer.map_payer applied to the row.
MapPayer ==
    /\ mapper = "payer" /\ tree = 1 /\ pc = "start"
    /\ LET r == map_payer(row)
       IN  /\ res' = r.res
           /\ err' = r.err
           /\ pc' = IF r.err = "" THEN "mapped" ELSE "raised"
    /\ UNCHANGED <<mapper, tree, row, csv>>

\* to_synthea_csv/payer.map_fhir_payer_to_csv applied to the resource.
MapFhirPayerToCsv ==
    /\ mapper = "payer" /\ tree = 1 /\ pc \in {"mapped", "given"}
    /\ LET r == map_fhir_payer_to_csv(res)
       IN  /\ csv' = r.row
           /\ err' = r.err
           /\ pc' = IF r.err = "" THEN "reversed" ELSE "raised"
    /\ UNCHANGED <<mapper, tree, row, res>>

\* fhir_mappers/payer.map_payer applied to the row.
LibMapPayer ==
    /\ mapper = "payer" /\ tree = 2 /\ pc = "start"
    /\ res' = lib_map_payer(row)
    /\ pc' = "mapped"
    /\ UNCHANGED <<mapper, tree, row, csv, err>>

\* synthea_csv_mappers/payer.map_fhir_payer_to_csv applied to the resource.
LibMapFhirPayerToCsv ==
    /\ mapper = "payer" /\ tree = 2 /\ pc \in {"mapped", "given"}
    /\ csv' = lib_map_fhir_payer_to_csv(res)
    /\ pc' = "reversed"
    /\ UNCHANGED <<mapper, tree, row, res, err>>

NextPayer == MapPayer \/ MapFhirPayerToCsv \/ LibMapPayer \/ LibMapFhirPayerToCsv

SpecPayer == InitPayer /\ [][NextPayer]_vars

\* ------------------------------------------------------------------ claims C4, C5, C7, C8

\* C4: no forward mapper raises, whatever strings the row holds: every call
\* returns a resource.
C4_ForwardNeverRaises == ~(pc = "raised" /\ row # Empty /\ res = Empty)

\* C5: a reverse mapper, of either tree, given a resource whose resourceType is
\* not the type it maps raises ValueError instead of returning a row.
C5_WrongTypeRaises ==
    (mapper = "payer" /\ pc \in {"reversed", "raised"} /\ res # Empty
        /\ res["resourceType"] # "Organization") =>
        pc = "raised" /\ err = "ValueError"

\* The sub-extension entries of the payer-stats extensions of a resource.
StatsEntries(resource) ==
    LET exts == Get(resource, "extension")
    IN  Flatten([i \in 1..Len(exts) |->
            IF exts[i].url = PAYER_STATS_URL THEN exts[i].extension ELSE Empty])

\* A statistics column is carried under the one payer-stats parent and comes
\* back numerically equal.
StatRecovered(f) ==
    /\ pc = "reversed"
    /\ Cardinality({i \in 1..Len(Get(res, "extension")) :
                        res["extension"][i].url = PAYER_STATS_URL}) = 1
    /\ \E i \in 1..Len(StatsEntries(res)) : StatsEntries(res)[i].url = f.url
    /\ NumEq(float(csv[f.col]), float(row[f.col]))

\* C7: for every payers row, each of the 14 statistics columns that holds a
\* numeric string is carried as a sub-extension of the single payer-stats
\* extension and comes back in the same column numerically equal; an empty
\* statistics column comes back empty.
C7_StatsRoundTrip ==
    (mapper = "payer" /\ pc = "reversed" /\ row # Empty) =>
        \A i \in 1..Len(StatsFields) :
            LET f == StatsFields[i]
            IN  /\ IsNumberLiteral(row[f.col]) => StatRecovered(f)
                /\ row[f.col] = Empty => pc = "reversed" /\ csv[f.col] = Empty

\* C7 as amended: for every payers row whose ten count columns are each empty
\* or an integer literal, each decimal column holding a finite numeric string
\* and each count column holding an integer literal is carried under the single
\* payer-stats extension and comes back numerically equal; an empty statistics
\* column comes back empty.
C7_StatsRoundTripWholeCounts ==
    (/\ mapper = "payer"
     /\ pc \in {"reversed", "raised"}
     /\ row # Empty
     /\ \A i \in 1..Len(StatsFields) :
            StatsFields[i].kind = "valueInteger" =>
                \/ row[StatsFields[i].col] = Empty
                \/ int_str(row[StatsFields[i].col]).err = "") =>
        \A i \in 1..Len(StatsFields) :
            LET f == StatsFields[i]
            IN  /\ IsNumberLiteral(row[f.col]) => StatRecovered(f)
                /\ row[f.col] = Empty => pc = "reversed" /\ csv[f.col] = Empty

\* A decimal ".1" beside whole counts has come back as "0.1".
C7_Witness ==
    /\ mapper = "payer" /\ tree = 1 /\ pc = "reversed" /\ row # Empty
    /\ row["Revenue"] = <<".", "1">>
    /\ row["Member_Months"] = <<"2">>
    /\ csv["Revenue"] = <<"0", ".", "1">>
    /\ csv["Member_Months"] = <<"2">>

\* C8: a text field carried in a custom extension comes back as exactly the
\* original string; here the payers Ownership column.
C8_TextExtensionRoundTrip ==
    (mapper = "payer" /\ pc = "reversed" /\ row # Empty) =>
        csv["Ownership"] = row["Ownership"]

\* ------------------------------------------------------------------ reference round trip

IdStrings == SeqsUpTo({"a", "/", " "}, MaxIdLen)

InitRef ==
    /\ mapper = "reference"
    /\ tree \in {1, 2}
    /\ pc = "start"
    /\ row \in IdStrings
    /\ res = Empty
    /\ csv = Empty
    /\ err = ""

\* common/transformers.create_reference("Patient", id)
CreateReference ==
    /\ mapper = "reference" /\ tree = 1 /\ pc = "start"
    /\ res' = create_reference("Patient", row)
    /\ pc' = "mapped"
    /\ UNCHANGED <<mapper, tree, row, csv, err>>

\* common/reverse_transformers.extract_reference_id(reference)
ExtractReferenceId ==
    /\ mapper = "reference" /\ tree = 1 /\ pc = "mapped"
    /\ csv' = extract_reference_id(res)
    /\ pc' = "reversed"
    /\ UNCHANGED <<mapper, tree, row, res, err>>

\* fhir_lib.create_reference("Patient", id)
LibCreateReference ==
    /\ mapper = "reference" /\ tree = 2 /\ pc = "start"
    /\ res' = lib_create_reference("Patient", row)
    /\ pc' = "mapped"
    /\ UNCHANGED <<mapper, tree, row, csv, err>>

\* synthea_csv_lib.extract_reference_id(reference)
LibExtractReferenceId ==
    /\ mapper = "reference" /\ tree = 2 /\ pc = "mapped"
    /\ csv' = lib_extract_reference_id(res)
    /\ pc' = "reversed"
    /\ UNCHANGED <<mapper, tree, row, res, err>>

NextRef ==
    CreateReference \/ ExtractReferenceId \/ LibCreateReference \/ LibExtractReferenceId

SpecRef == InitRef /\ [][NextRef]_vars

C11_BlankIdGivesNoReference ==
    (mapper = "reference" /\ pc \in {"mapped", "reversed"} /\ strip(row) = Empty) =>
        res = Empty

\* ------------------------------------------------------------------ encounter extensions

\* to_fhir/encounter._build_extensions: the cost columns and the urls their
\* extensions are appended under, in order.
EncounterCostFields ==
    <<[col |-> "Base_Encounter_Cost",
       url |-> "http://example.org/fhir/StructureDefinition/encounter-baseCost"],
      [col |-> "Total_Claim_Cost",
       url |-> "http://example.org/fhir/StructureDefinition/encounter-totalClaimCost"],
      [col |-> "Payer_Coverage",
       url |-> "http://example.org/fhir/StructureDefinition/encounter-payerCoverage"]>>

ENCOUNTER_PAYER_URL == "http://example.org/fhir/StructureDefinition/encounter-payer"

\* The encounters rows as _build_extensions reads them: a base row with one
\* column replaced.
EncounterRows ==
    LET cost == {EncounterCostFields[i].col : i \in 1..Len(EncounterCostFields)}
        base(full) == [c \in cost \cup {"Payer"} |->
                          IF ~full THEN Empty
                          ELSE IF c = "Payer" THEN <<"b">> ELSE <<"2">>]
    IN  {[base(full) EXCEPT ![c] = v] : full \in BOOLEAN, c \in cost, v \in StatValues}
        \cup {[base(full) EXCEPT !["Payer"] = v] : full \in BOOLEAN, v \in IdStrings}

\* _build_extensions entered: exts = [].
InitExt ==
    /\ mapper = "encounter"
    /\ tree = 1
    /\ pc = "ext1"
    /\ row \in EncounterRows
    /\ res = Empty
    /\ csv = Empty
    /\ err = ""

\* add_decimal_ext for the k-th cost column; its body is that of the payer
\* mapper's add_decimal.
AddDecimalExt(k) ==
    /\ res' = res \o add_decimal(EncounterCostFields[k].url,
                                 row[EncounterCostFields[k].col])
    /\ UNCHANGED <<mapper, tree, row, csv, err>>

AddBaseCost ==
    mapper = "encounter" /\ pc = "ext1" /\ pc' = "ext2" /\ AddDecimalExt(1)

AddTotalClaimCost ==
    mapper = "encounter" /\ pc = "ext2" /\ pc' = "ext3" /\ AddDecimalExt(2)

AddPayerCoverage ==
    mapper = "encounter" /\ pc = "ext3" /\ pc' = "ext4" /\ AddDecimalExt(3)

\* The payer reference extension, appended last.
AddPayer ==
    /\ mapper = "encounter" /\ pc = "ext4"
    /\ res' = IF row["Payer"] = Empty THEN res
              ELSE Append(res, [url |-> ENCOUNTER_PAYER_URL,
                                valueReference |->
                                    create_reference("Organization", row["Payer"])])
    /\ pc' = "built"
    /\ UNCHANGED <<mapper, tree, row, csv, err>>

NextExt == AddBaseCost \/ AddTotalClaimCost \/ AddPayerCoverage \/ AddPayer

SpecExt == InitExt /\ [][NextExt]_vars

\* The urls _build_extensions can append, and one it never appends.
C6_Urls ==
    {EncounterCostFields[i].url : i \in 1..Len(EncounterCostFields)}
        \cup {ENCOUNTER_PAYER_URL, PAYER_STATS_URL}

\* C6: after extensions with different urls have been appended to one array,
\* extract_extension_by_url returns for each appended url the entry as it was
\* appended and None for a url that was not appended, and an append leaves the
\* entry found for every other url unchanged.
C6_ExtensionIsolation ==
    /\ [](mapper = "encounter" =>
            /\ \A i \in 1..Len(res) : extract_extension_by_url(res, res[i].url) = res[i]
            /\ \A u \in C6_Urls :
                  (\A i \in 1..Len(res) : res[i].url # u) =>
                      extract_extension_by_url(res, u) = Empty)
    /\ [][mapper = "encounter" =>
            \A u \in C6_Urls :
                \/ Len(res') = Len(res) + 1 /\ res'[Len(res')].url = u
                \/ extract_extension_by_url(res', u) = extract_extension_by_url(res, u)]_vars

\* A base cost and then a total claim cost have been appended, and both are
\* found by url.
C6_Witness ==
    /\ mapper = "encounter" /\ pc = "built" /\ Len(res) >= 2
    /\ res[1] = [url |-> EncounterCostFields[1].url, valueDecimal |-> Normal(FALSE, 2, 0)]
    /\ res[2].url = EncounterCostFields[2].url
    /\ extract_extension_by_url(res, EncounterCostFields[1].url) = res[1]
    /\ extract_extension_by_url(res, EncounterCostFields[2].url) = res[2]
    /\ extract_extension_by_url(res, PAYER_STATS_URL) = Empty

\* ------------------------------------------------------------------ extension urls

GEOLOCATION_URL == "http://hl7.org/fhir/StructureDefinition/geolocation"

RESOURCE_ENCOUNTER_URL == "http://hl7.org/fhir/StructureDefinition/resource-encounter"

\* Every extension filed under the payer-stats url, whatever the mapper.
WritesUnderOneUrl(m, t, u, cols, trees) ==
    [mapper |-> m, resourceType |-> t, url |-> PAYER_STATS_URL, columns |-> cols,
     trees |-> trees]

\* One extension a forward mapper writes: the mapper, the resourceType of what
\* it returns, the url, the columns that must hold a usable value (non-empty,
\* and parseable where the mapper parses it), and the trees that write it.
Writes(m, t, u, cols, trees) ==
    [mapper |-> m, resourceType |-> t, url |-> u, columns |-> cols, trees |-> trees]

\* The extensions written by the forward mappers of to_fhir/ (tree 1) and of
\* the two fhir_mappers/ directories (tree 2): patient, provider (Practitioner
\* and PractitionerRole), organization, payer, payer_transitions, encounter,
\* medication, immunization, procedure, device, supply, claim (claims in
\* tree 2) and claims_transactions.  The allergy, careplan, condition,
\* imaging_study and observation mappers write no extension.
ExtensionWrites ==
    {Writes("patient", "Patient", GEOLOCATION_URL, {"LAT", "LON"}, {1, 2}),
     Writes("patient", "Patient",
            "http://hl7.org/fhir/us/core/StructureDefinition/us-core-race", {"RACE"}, {1, 2}),
     Writes("patient", "Patient",
            "http://hl7.org/fhir/us/core/StructureDefinition/us-core-ethnicity",
            {"ETHNICITY"}, {1, 2}),
     Writes("patient", "Patient",
            "http://hl7.org/fhir/StructureDefinition/patient-birthPlace", {"BIRTHPLACE"}, {1}),
     Writes("patient", "Patient",
            "http://hl7.org/fhir/StructureDefinition/birthPlace", {"BIRTHPLACE"}, {2}),
     Writes("practitioner", "Practitioner", GEOLOCATION_URL, {"Lat", "Lon"}, {1, 2}),
     Writes("practitioner_role", "PractitionerRole",
            "http://example.org/fhir/StructureDefinition/provider-stats", {"Encounters"}, {1, 2}),
     Writes("practitioner_role", "PractitionerRole",
            "http://example.org/fhir/StructureDefinition/provider-stats", {"Procedures"}, {1, 2}),
     Writes("organization", "Organization", GEOLOCATION_URL, {"Lat", "Lon"}, {1, 2}),
     Writes("organization", "Organization",
            "http://synthea.mitre.org/fhir/StructureDefinition/organization-stats",
            {"Revenue"}, {1, 2}),
     Writes("organization", "Organization",
            "http://synthea.mitre.org/fhir/StructureDefinition/organization-stats",
            {"Utilization"}, {1, 2}),
     Writes("payer", "Organization", PAYER_OWNERSHIP_URL, {"Ownership"}, {1, 2}),
     Writes("payer", "Organization", PAYER_STATS_URL, {"Revenue"}, {1, 2}),
     Writes("payer", "Organization", PAYER_STATS_URL, {"Member_Months"}, {1, 2}),
     Writes("payer_transitions", "Coverage",
            "http://synthea.mitre.org/fhir/StructureDefinition/policy-owner-name",
            {"Owner Name"}, {1, 2}),
     Writes("encounter", "Encounter", EncounterCostFields[1].url,
            {"Base_Encounter_Cost"}, {1, 2}),
     Writes("encounter", "Encounter", EncounterCostFields[2].url,
            {"Total_Claim_Cost"}, {1, 2}),
     Writes("encounter", "Encounter", EncounterCostFields[3].url, {"Payer_Coverage"}, {1, 2}),
     Writes("encounter", "Encounter", ENCOUNTER_PAYER_URL, {"Payer"}, {1, 2}),
     Writes("medication", "MedicationRequest",
            "http://synthea.org/fhir/StructureDefinition/medication-baseCost",
            {"Base_Cost"}, {1, 2}),
     Writes("medication", "MedicationRequest",
            "http://synthea.org/fhir/StructureDefinition/medication-payerCoverage",
            {"Payer_Coverage"}, {1, 2}),
     Writes("medication", "MedicationRequest",
            "http://synthea.org/fhir/StructureDefinition/medication-totalCost",
            {"TotalCost"}, {1, 2}),
     Writes("immunization", "Immunization",
            "http://synthea.mitre.org/fhir/StructureDefinition/immunization-cost",
            {"COST"}, {1, 2}),
     Writes("procedure", "Procedure",
            "http://example.org/fhir/StructureDefinition/baseCost", {"BASE_COST"}, {1, 2}),
     Writes("device", "Device",
            "http://synthea.tools/fhir/StructureDefinition/device-use-period",
            {"START"}, {1, 2}),
     Writes("device", "Device",
            "http://synthea.tools/fhir/StructureDefinition/device-use-period",
            {"STOP"}, {1, 2}),
     Writes("device", "Device", RESOURCE_ENCOUNTER_URL, {"ENCOUNTER"}, {1, 2}),
     Writes("supply", "SupplyDelivery", RESOURCE_ENCOUNTER_URL, {"ENCOUNTER"}, {1, 2}),
     Writes("claim", "Claim",
            "http://synthea.tools/StructureDefinition/department-id",
            {"Department ID"}, {1, 2}),
     Writes("claim", "Claim",
            "http://synthea.tools/StructureDefinition/patient-department-id",
            {"Patient Department ID"}, {1, 2}),
     Writes("claims_transactions", "Claim",
            "http://synthea.tools/StructureDefinition/transaction-id", {"Id"}, {2})}

\* The columns a forward mapper's extensions depend on.
ExtensionColumns(m) == UNION {w.columns : w \in {x \in ExtensionWrites : x.mapper = m}}

\* A forward mapper of either tree and the columns of its row that hold a
\* usable value.
InitUrls ==
    /\ mapper \in {w.mapper : w \in ExtensionWrites}
    /\ tree \in {1, 2}
    /\ pc = "start"
    /\ row \in SUBSET ExtensionColumns(mapper)
    /\ res = Empty
    /\ csv = Empty
    /\ err = ""

\* The forward mapper applied: the resourceType it returns and the urls of the
\* extensions it wrote.
WriteExtensions ==
    /\ pc = "start"
    /\ \E w \in ExtensionWrites : w.mapper = mapper /\ tree \in w.trees
    /\ LET mine == {w \in ExtensionWrites : w.mapper = mapper /\ tree \in w.trees}
       IN  res' = [resourceType |-> (CHOOSE w \in mine : TRUE).resourceType,
                   urls |-> {w.url : w \in {x \in mine : x.columns \subseteq row}}]
    /\ pc' = "mapped"
    /\ UNCHANGED <<mapper, tree, row, csv, err>>

NextUrls == WriteExtensions

SpecUrls == InitUrls /\ [][NextUrls]_vars

\* C9: no extension url that a forward mapper writes is written by the forward
\* mappers of another resource type.
C9_UrlOwnedByOneType ==
    pc = "mapped" =>
        \A u \in res.urls : \A w \in ExtensionWrites :
            w.url = u => w.resourceType = res.resourceType

\* C9 as amended: apart from the HL7 geolocation url (written for Patient,
\* Practitioner and Organization addresses) and the HL7 resource-encounter url
\* (written for Device and SupplyDelivery), no extension url that a forward
\* mapper writes is written by the forward mappers of another resource type.
C9_CustomUrlOwnedByOneType ==
    pc = "mapped" =>
        \A u \in res.urls \ {GEOLOCATION_URL, RESOURCE_ENCOUNTER_URL} :
            \A w \in ExtensionWrites : w.url = u => w.resourceType = res.resourceType

\* The payer mapper has written both of its extensions.
C9_Witness ==
    /\ pc = "mapped" /\ mapper = "payer"
    /\ res = [resourceType |-> "Organization",
              urls |-> {PAYER_OWNERSHIP_URL, PAYER_STATS_URL}]

\* ------------------------------------------------------------------ payer transition years

\* to_fhir/payer_transitions._compose_period: the year as it stands in the
\* column, followed by -01-01 (start) or -12-31 (end); None is written Empty.
_compose_period(start_year, end_year) ==
    Opt("start", IF start_year = Empty THEN Empty
                 ELSE start_year \o <<"-","0","1","-","0","1">>)
    @@ Opt("end", IF end_year = Empty THEN Empty
                  ELSE end_year \o <<"-","1","2","-","3","1">>)

\* fhir_mappers/payer_transitions.map_coverage, the period it sets: each year
\* column stripped, read by int() and printed again by the f-string; a year
\* int() rejects is left out.
map_coverage(csv_row) ==
    LET date(year, suffix) == IF year.err # "" THEN Empty ELSE str_int(year.n) \o suffix
        period(start_year_str, end_year_str) ==
            Opt("start", IF start_year_str = Empty THEN Empty
                         ELSE date(int_str(start_year_str), <<"-","0","1","-","0","1">>))
            @@ Opt("end", IF end_year_str = Empty THEN Empty
                          ELSE date(int_str(end_year_str), <<"-","1","2","-","3","1">>))
    IN  ("resourceType" :> "Coverage")
        @@ Opt("period", period(strip(csv_row.Start_Year), strip(csv_row.End_Year)))

\* to_synthea_csv/payer_transitions._year_from_date: the first four characters
\* when they are digits; None is written Empty.
_year_from_date(date_str) ==
    IF Len(date_str) >= 4 /\ Chars(SubSeq(date_str, 1, 4)) \subseteq Digits
    THEN SubSeq(date_str, 1, 4)
    ELSE Empty

\* synthea_csv_lib.extract_year: str(fromisoformat(...).year), and when that
\* raises, str(int(dt_str[:4])); "" when both fail.
extract_year(dt_str) ==
    LET replaced == [i \in 1..Len(dt_str) |->
                        IF dt_str[i] = "Z" THEN <<"+","0","0",":","0","0">>
                        ELSE <<dt_str[i]>>]
        fallback(year) == IF year.err # "" THEN Empty ELSE str_int(year.n)
        year_of(dt) ==
            IF dt.err = "" THEN str_int(dt.year)
            ELSE IF Len(dt_str) >= 4 THEN fallback(int_str(SubSeq(dt_str, 1, 4)))
            ELSE Empty
    IN  IF dt_str = Empty THEN Empty ELSE year_of(fromisoformat(Flatten(replaced)))

\* The strings of a payer_transitions year column: years of four digits, two
\* of them with leading zeros, and strings that are no four-digit year.
Years ==
    {<<"2","0","2","0">>, <<"1","9","9","9">>, <<"0","9","9","9">>, <<"0","0","0","0">>,
     Empty, <<"2","0">>, <<" ","2","0","2","0">>, <<"x">>, <<"1","2","3","4","5">>}

\* The strings handed to the codecs: a date of digit groups, alone or followed
\* by a space or a T and a time, with or without a timezone suffix; and a few
\* strings that are no date.
Timestamps ==
    LET years == {<<"2","0","2","4">>, <<"2","0","2","3">>, <<"1","9","9","9">>}
        months == {<<"0","2">>, <<"1","2">>, <<"1","3">>, <<"2">>}
        days == {<<"0","1">>, <<"2","9">>, <<"3","1">>, <<"5">>}
        times == {<<"1","0",":","3","0",":","0","0">>, <<"2","3",":","5","9",":","5","9">>,
                  <<"2","4",":","0","0",":","0","0">>, <<"1",":","2",":","3">>,
                  <<"1","0",":","3","0",":","6","0">>}
        zones == {Empty, <<"Z">>, <<"+","0","0",":","0","0">>, <<"-","0","5",":","0","0">>}
        dates == {y \o <<"-">> \o m \o <<"-">> \o d : y \in years, m \in months, d \in days}
    IN  dates
        \cup {d \o <<sep>> \o t \o z : d \in dates, sep \in {" ", "T"}, t \in times, z \in zones}
        \cup {Empty, <<" ">>, <<"x">>, <<"T">>}

\* A codec of either tree about to be applied: the forward one to a Synthea
\* string (row), or the reverse one to a FHIR string given from outside (res);
\* or the payer-transition mappers of either tree about to be applied to the
\* two year columns of a row.
InitDate ==
    /\ tree \in {1, 2}
    /\ \/ mapper = "datetime" /\ pc = "start" /\ row \in Timestamps /\ res = Empty
       \/ mapper = "datetime" /\ pc = "given" /\ row = Empty /\ res \in Timestamps
       \/ /\ mapper = "payer_transitions" /\ pc = "start"
          /\ row \in [Start_Year : Years, End_Year : Years]
          /\ res = Empty
    /\ csv = Empty
    /\ err = ""

\* to_fhir_datetime (tree 1) or format_datetime (tree 2) applied to the row.
FormatDatetime ==
    /\ mapper = "datetime" /\ pc = "start"
    /\ res' = IF tree = 1 THEN to_fhir_datetime(row) ELSE format_datetime(row)
    /\ pc' = "mapped"
    /\ UNCHANGED <<mapper, tree, row, csv, err>>

\* parse_fhir_datetime (tree 1) or parse_datetime (tree 2) applied to the FHIR
\* string.
ParseDatetime ==
    /\ mapper = "datetime" /\ pc \in {"mapped", "given"}
    /\ csv' = IF tree = 1 THEN parse_fhir_datetime(res) ELSE parse_datetime(res)
    /\ pc' = "reversed"
    /\ UNCHANGED <<mapper, tree, row, res, err>>

\* map_payer_transition (tree 1) or map_coverage (tree 2) applied to the row.
MapPayerTransition ==
    /\ mapper = "payer_transitions" /\ pc = "start"
    /\ res' = IF tree = 1
              THEN ("resourceType" :> "Coverage")
                   @@ Opt("period", _compose_period(row.Start_Year, row.End_Year))
              ELSE map_coverage(row)
    /\ pc' = "mapped"
    /\ UNCHANGED <<mapper, tree, row, csv, err>>

\* map_fhir_coverage_to_payer_transition (tree 1) or map_fhir_coverage_to_csv
\* (tree 2) applied to the Coverage: both year columns are always written.
ReversePayerTransition ==
    /\ mapper = "payer_transitions" /\ pc = "mapped"
    /\ csv' = IF tree = 1
              THEN [Start_Year |-> _year_from_date(Get(Get(res, "period"), "start")),
                    End_Year |-> _year_from_date(Get(Get(res, "period"), "end"))]
              ELSE [Start_Year |-> extract_year(Get(Get(res, "period"), "start")),
                    End_Year |-> extract_year(Get(Get(res, "period"), "end"))]
    /\ pc' = "reversed"
    /\ UNCHANGED <<mapper, tree, row, res, err>>

NextDate ==
    FormatDatetime \/ ParseDatetime \/ MapPayerTransition \/ ReversePayerTransition

SpecDate == InitDate /\ [][NextDate]_vars

\* A Synthea timestamp 'YYYY-MM-DD HH:MM:SS' naming a real date and time.
IsSyntheaTimestamp(s) == Len(s) = 19 /\ strptime(s, TRUE).err = ""

\* C12: for every valid Synthea timestamp s, to_fhir_datetime(s) carries the
\* date and the time of s, and parse_fhir_datetime of it returns s.
C12_DatetimeRoundTrip ==
    (mapper = "datetime" /\ tree = 1 /\ pc \in {"mapped", "reversed"}
        /\ IsSyntheaTimestamp(row)) =>
        /\ Len(res) >= 19
        /\ SubSeq(res, 1, 10) = SubSeq(row, 1, 10)
        /\ SubSeq(res, 12, 19) = SubSeq(row, 12, 19)
        /\ pc = "reversed" => csv = row

\* The leap day 2024-02-29 23:59:59 has gone through both codecs of tree 1.
C12_Witness ==
    /\ mapper = "datetime" /\ tree = 1 /\ pc = "reversed"
    /\ row = <<"2","0","2","4","-","0","2","-","2","9"," ","2","3",":","5","9",":","5","9">>
    /\ res = <<"2","0","2","4","-","0","2","-","2","9","T","2","3",":","5","9",":","5","9",
               "+","0","0",":","0","0">>
    /\ csv = row

\* C13: to_fhir_datetime returns 'YYYY-MM-DDTHH:MM:SS+00:00' for a timestamp
\* 'YYYY-MM-DD HH:MM:SS', the bare date for a date-only 'YYYY-MM-DD', and
\* None, without raising, for a string that is no date.
C13_ToFhirDatetimeForms ==
    (mapper = "datetime" /\ tree = 1 /\ pc = "mapped") =>
        /\ err = ""
        /\ IsSyntheaTimestamp(row) =>
              res = SubSeq(row, 1, 10) \o <<"T">> \o SubSeq(row, 12, 19)
                        \o <<"+","0","0",":","0","0">>
        /\ (Len(row) = 10 /\ strptime(row, FALSE).err = "") => res = row
        /\ row \in {<<" ">>, <<"x">>, <<"T">>} => res = Empty

\* C14: the reverse codec of either tree returns 'YYYY-MM-DD HH:MM:SS', with
\* the digits of its input, for a FHIR datetime 'YYYY-MM-DDTHH:MM:SS' followed
\* by Z, +HH:MM, -HH:MM or nothing, and the plain date for a FHIR date.
C14_ReverseDatetimeForms ==
    (mapper = "datetime" /\ pc = "reversed") =>
        /\ (/\ Len(res) >= 19
            /\ res[11] = "T"
            /\ fromisoformat(SubSeq(res, 1, 19)).err = ""
            /\ SubSeq(res, 20, Len(res)) \in
                  {Empty, <<"Z">>, <<"+","0","0",":","0","0">>, <<"-","0","5",":","0","0">>}) =>
              csv = SubSeq(res, 1, 10) \o <<" ">> \o SubSeq(res, 12, 19)
        /\ (Len(res) = 10 /\ fromisoformat(res).err = "") => csv = res

\* C15: for year columns of four digits, the forward payer-transition mapper
\* of either tree writes period.start 'YYYY-01-01' and period.end
\* 'YYYY-12-31', and the paired reverse mapper returns the same two years.
C15_YearRoundTrip ==
    (/\ mapper = "payer_transitions" /\ pc \in {"mapped", "reversed"}
     /\ \A y \in {row.Start_Year, row.End_Year} : Len(y) = 4 /\ Chars(y) \subseteq Digits) =>
        /\ Get(res, "period") = [start |-> row.Start_Year \o <<"-","0","1","-","0","1">>,
                                 end |-> row.End_Year \o <<"-","1","2","-","3","1">>]
        /\ pc = "reversed" => csv = row

\* ------------------------------------------------------------------ patient

\* Faulty variant: the family name put among the given names.
_build_name_all_given(src) ==
    IF Get(src, "FIRST") = Empty /\ Get(src, "LAST") = Empty THEN Empty
    ELSE [use |-> "official", given |-> <<Get(src, "FIRST"), Get(src, "LAST")>>]

\* to_fhir/patient._build_name: the official HumanName, None (Empty) when the
\* row has none of its four parts.
_build_name(src) ==
    LET part(column, field, as_list) ==
            IF Get(src, column) = Empty THEN Empty
            ELSE field :> (IF as_list THEN <<src[column]>> ELSE src[column])
        content(name) == IF name = Empty THEN Empty ELSE ("use" :> "official") @@ name
    IN  content(part("PREFIX", "prefix", TRUE) @@ part("FIRST", "given", TRUE)
                @@ part("LAST", "family", FALSE) @@ part("SUFFIX", "suffix", TRUE))

\* Faulty variant: the identifier without its type coding.
create_identifier_untyped(system, value, type_code) ==
    [system |-> system, value |-> value]

\* common/transformers.create_identifier with a type code: system, value and
\* the v2-0203 type coding.
create_identifier(system, value, type_code) ==
    [system |-> system, value |-> value,
     type |-> [coding |-> <<[system |-> "http://terminology.hl7.org/CodeSystem/v2-0203",
                             code |-> type_code]>>]]

\* to_fhir/patient.patient_transform with _build_identifiers, _build_maiden_name,
\* _build_address, _build_extensions, the lexicons of common/lexicons,
\* to_fhir_date and filter_none_values (a None, "" or [] entry is dropped).
\* float() of LAT or LON raises ValueError.
patient_transform(src) ==
    LET col(c) == Get(src, c)
        one(v, x) == IF v = Empty THEN Empty ELSE <<x>>
        _build_identifiers ==
            one(col("Id"), create_identifier("urn:oid:2.16.840.1.113883.19.5", col("Id"), "MR")
                               @@ ("use" :> "official"))
            \o one(col("SSN"), create_identifier("http://hl7.org/fhir/sid/us-ssn", col("SSN"), "SS"))
            \o one(col("DRIVERS"),
                   create_identifier("urn:oid:2.16.840.1.113883.4.3.25", col("DRIVERS"), "DL"))
            \o one(col("PASSPORT"),
                   create_identifier("http://hl7.org/fhir/sid/passport-USA", col("PASSPORT"), "PPN"))
        \* common/lexicons.gender_lexicon read by Lexicon.get: the value mapped
        \* to the code, else the default.  (No generated code is itself a value
        \* of the table.)
        gender_lexicon(key) ==
            IF key = <<"M">> THEN <<"m","a","l","e">>
            ELSE IF key = <<"F">> THEN <<"f","e","m","a","l","e">>
            ELSE IF key = <<"O">> THEN <<"o","t","h","e","r">>
            ELSE <<"u","n","k","n","o","w","n">>
        names(name) ==
            one(name, name) \o one(col("MAIDEN"), [use |-> "maiden", family |-> col("MAIDEN")])
        \* to_fhir_date: the datetime parse_synthea_datetime reads, printed by
        \* "%Y-%m-%d", which is the date part of what to_fhir_datetime prints.
        to_fhir_date(value) ==
            IF to_fhir_datetime(value) = Empty THEN Empty
            ELSE SubSeq(to_fhir_datetime(value), 1, 10)
        geolocation ==
            IF col("LAT") = Empty \/ col("LON") = Empty THEN Empty
            ELSE "extension" :>
                    <<[url |-> GEOLOCATION_URL,
                       extension |-> <<[url |-> "latitude", valueDecimal |-> float(col("LAT"))],
                                       [url |-> "longitude", valueDecimal |-> float(col("LON"))]>>]>>
        address(content) == IF content = Empty THEN Empty ELSE <<("use" :> "home") @@ content>>
        _build_address ==
            address(Opt("line", one(col("ADDRESS"), col("ADDRESS")))
                    @@ Opt("city", col("CITY")) @@ Opt("state", col("STATE"))
                    @@ Opt("district", col("COUNTY")) @@ Opt("postalCode", col("ZIP"))
                    @@ geolocation)
        omb(url, code, display, text) ==
            <<[url |-> url,
               extension |-> <<[url |-> "ombCategory",
                                valueCoding |-> [system |-> "urn:oid:2.16.840.1.113883.6.238",
                                                 code |-> code, display |-> display]],
                               [url |-> "text", valueString |-> text]>>]>>
        race_lexicon(key) ==
            LET ext(code, display, text) ==
                    omb("http://hl7.org/fhir/us/core/StructureDefinition/us-core-race",
                        code, display, text)
            IN  IF key = <<"w","h","i","t","e">> THEN ext(<<"2","1","0","6","-","3">>, "White", "White")
                ELSE IF key = <<"b","l","a","c","k">>
                THEN ext(<<"2","0","5","4","-","5">>, "Black or African American", "Black or African American")
                ELSE IF key = <<"a","s","i","a","n">> THEN ext(<<"2","0","2","8","-","9">>, "Asian", "Asian")
                ELSE IF key = <<"n","a","t","i","v","e">>
                THEN ext(<<"1","0","0","2","-","5">>, "American Indian or Alaska Native",
                         "American Indian or Alaska Native")
                ELSE IF key = <<"h","a","w","a","i","i","a","n">>
                THEN ext(<<"2","0","7","6","-","8">>, "Native Hawaiian or Other Pacific Islander",
                         "Native Hawaiian or Other Pacific Islander")
                ELSE IF key = <<"o","t","h","e","r">> THEN ext(<<"2","1","3","1","-","1">>, "Other Race", "Other")
                ELSE Empty
        ethnicity_lexicon(key) ==
            LET ext(code, display) ==
                    omb("http://hl7.org/fhir/us/core/StructureDefinition/us-core-ethnicity",
                        code, display, display)
            IN  IF key = <<"h","i","s","p","a","n","i","c">> THEN ext(<<"2","1","3","5","-","2">>, "Hispanic or Latino")
                ELSE IF key = <<"n","o","n","h","i","s","p","a","n","i","c">> THEN ext(<<"2","1","8","6","-","5">>, "Not Hispanic or Latino")
                ELSE Empty
        _build_extensions ==
            race_lexicon(lower(col("RACE")))
            \o ethnicity_lexicon(lower(col("ETHNICITY")))
            \o one(col("BIRTHPLACE"),
                   [url |-> "http://hl7.org/fhir/StructureDefinition/patient-birthPlace",
                    valueAddress |-> [text |-> col("BIRTHPLACE")]])
        marital_status_lexicon(key) ==
            LET concept(display) ==
                    "maritalStatus" :>
                        [coding |-> <<[system |->
                                          "http://terminology.hl7.org/CodeSystem/v3-MaritalStatus",
                                       code |-> key, display |-> display]>>,
                         text |-> display]
            IN  IF key = <<"S">> THEN concept("Never Married")
                ELSE IF key = <<"M">> THEN concept("Married")
                ELSE IF key = <<"D">> THEN concept("Divorced")
                ELSE IF key = <<"W">> THEN concept("Widowed")
                ELSE Empty
        raises ==
            /\ col("LAT") # Empty /\ col("LON") # Empty
            /\ NotANumber \in {float(col("LAT")), float(col("LON"))}
    IN  IF raises THEN [res |-> Empty, err |-> "ValueError"]
        ELSE [res |-> ("resourceType" :> "Patient")
                      @@ Opt("id", col("Id"))
                      @@ Opt("identifier", _build_identifiers)
                      @@ Opt("name", names(_build_name(src)))
                      @@ Opt("gender", IF col("GENDER") = Empty THEN Empty
                                       ELSE gender_lexicon(col("GENDER")))
                      @@ Opt("birthDate", to_fhir_date(col("BIRTHDATE")))
                      @@ Opt("deceasedDateTime", to_fhir_datetime(col("DEATHDATE")))
                      @@ Opt("address", _build_address)
                      @@ marital_status_lexicon(col("MARITAL"))
                      @@ Opt("extension", _build_extensions),
              err |-> ""]
\* fhir_mappers/patient.map_patient with fhir_lib's map_gender,
\* map_marital_status and format_date: every column stripped, a coordinate
\* float() rejects left out, nothing filtered from the resource.
lib_map_patient(csv_row) ==
    LET col(c) == strip(Get(csv_row, c))
        one(v, x) == IF v = Empty THEN Empty ELSE <<x>>
        upper(s) ==
            LET capital == <<"A","B","C","D","E","F","G","H","I","J","K","L","M",
                             "N","O","P","Q","R","S","T","U","V","W","X","Y","Z">>
                small == <<"a","b","c","d","e","f","g","h","i","j","k","l","m",
                           "n","o","p","q","r","s","t","u","v","w","x","y","z">>
            IN  [i \in 1..Len(s) |->
                    IF \E j \in 1..26 : small[j] = s[i]
                    THEN capital[CHOOSE j \in 1..26 : small[j] = s[i]]
                    ELSE s[i]]
        \* fhir_lib.map_gender: only M and F are in gender_map
        map_gender(gender_str) ==
            IF strip(upper(gender_str)) = <<"M">> THEN <<"m","a","l","e">>
            ELSE IF strip(upper(gender_str)) = <<"F">> THEN <<"f","e","m","a","l","e">>
            ELSE Empty
        map_marital_status(marital_str) ==
            LET concept(code, display) ==
                    "maritalStatus" :>
                        [coding |-> <<[system |->
                                          "http://terminology.hl7.org/CodeSystem/v3-MaritalStatus",
                                       code |-> code, display |-> display]>>]
                lookup(code) ==
                    IF code = <<"S">> THEN concept(code, "Never Married")
                    ELSE IF code = <<"M">> THEN concept(code, "Married")
                    ELSE IF code = <<"D">> THEN concept(code, "Divorced")
                    ELSE IF code = <<"W">> THEN concept(code, "Widowed")
                    ELSE Empty
            IN  lookup(strip(upper(marital_str)))
        typed(type_code, display, value) ==
            [type |-> [coding |-> <<[system |-> "http://terminology.hl7.org/CodeSystem/v2-0203",
                                     code |-> type_code, display |-> display]>>],
             value |-> value]
        identifiers ==
            one(col("Id"), [system |-> "urn:oid:2.16.840.1.113883.19.5", value |-> col("Id")])
            \o one(col("SSN"), typed("SS", "Social Security Number", col("SSN")))
            \o one(col("DRIVERS"), typed("DL", "Driver's License", col("DRIVERS")))
            \o one(col("PASSPORT"), typed("PPN", "Passport Number", col("PASSPORT")))
        date_of(dt) == IF dt.err # "" THEN Empty ELSE strftime(dt, "")
        format_date(date_str) ==
            IF date_str = Empty THEN Empty
            ELSE date_of(fromisoformat(Flatten(
                    [i \in 1..Len(date_str) |->
                        IF date_str[i] = "Z" THEN <<"+","0","0",":","0","0">>
                        ELSE <<date_str[i]>>])))
        deceased ==
            IF col("DEATHDATE") = Empty THEN "deceasedBoolean" :> FALSE
            ELSE Opt("deceasedDateTime", format_datetime(col("DEATHDATE")))
        official(content) == IF content = Empty THEN Empty ELSE ("use" :> "official") @@ content
        names(name) ==
            one(name, name) \o one(col("MAIDEN"), [use |-> "maiden", family |-> col("MAIDEN")])
        text_extension(url, text) ==
            one(text, [url |-> url, extension |-> <<[url |-> "text", valueString |-> text]>>])
        extensions ==
            text_extension("http://hl7.org/fhir/us/core/StructureDefinition/us-core-race",
                           col("RACE"))
            \o text_extension("http://hl7.org/fhir/us/core/StructureDefinition/us-core-ethnicity",
                              col("ETHNICITY"))
            \o one(col("BIRTHPLACE"),
                   [url |-> "http://hl7.org/fhir/StructureDefinition/birthPlace",
                    valueAddress |-> [text |-> col("BIRTHPLACE")]])
        located ==
            /\ col("LAT") # Empty /\ float(col("LAT")) # NotANumber
            /\ col("LON") # Empty /\ float(col("LON")) # NotANumber
        address ==
            IF {col("ADDRESS"), col("CITY"), col("STATE"), col("COUNTY"), col("ZIP")} = {Empty}
               /\ ~located
            THEN Empty
            ELSE <<("use" :> "home")
                   @@ Opt("line", one(col("ADDRESS"), col("ADDRESS")))
                   @@ Opt("city", col("CITY")) @@ Opt("state", col("STATE"))
                   @@ Opt("district", col("COUNTY")) @@ Opt("postalCode", col("ZIP"))
                   @@ (IF ~located THEN Empty
                       ELSE "extension" :>
                               <<[url |-> GEOLOCATION_URL,
                                  extension |->
                                      <<[url |-> "latitude",
                                         valueDecimal |-> float(col("LAT"))],
                                        [url |-> "longitude",
                                         valueDecimal |-> float(col("LON"))]>>]>>)>>
    IN  ("resourceType" :> "Patient")
        @@ ("id" :> col("Id"))
        @@ Opt("identifier", identifiers)
        @@ Opt("birthDate", format_date(col("BIRTHDATE")))
        @@ deceased
        @@ Opt("name", names(official(Opt("prefix", one(col("PREFIX"), col("PREFIX")))
                                      @@ Opt("given", one(col("FIRST"), col("FIRST")))
                                      @@ Opt("family", col("LAST"))
                                      @@ Opt("suffix", one(col("SUFFIX"), col("SUFFIX"))))))
        @@ Opt("gender", map_gender(col("GENDER")))
        @@ map_marital_status(col("MARITAL"))
        @@ Opt("extension", extensions)
        @@ Opt("address", address)

\* to_synthea_csv/patient.map_fhir_patient_to_csv: ValueError unless the
\* resource is a Patient, else fhir_patient_to_csv_transform with
\* _extract_name_components, _extract_address_components, the extractors of
\* common/reverse_transformers and filter_none_values (None is written "").
map_fhir_patient_to_csv(fhir_patient) ==
    LET has(d, k, v) == k \in DOMAIN d /\ d[k] = v
        first(items, Match(_)) ==
            LET hits == {i \in 1..Len(items) : Match(items[i])}
            IN  IF hits = {} THEN Empty ELSE items[CHOOSE i \in hits : \A j \in hits : i <= j]
        last(items, Match(_)) ==
            LET hits == {i \in 1..Len(items) : Match(items[i])}
            IN  IF hits = {} THEN Empty ELSE items[CHOOSE i \in hits : \A j \in hits : i >= j]
        safe_get_first(items) == IF items = Empty THEN Empty ELSE items[1]
        or_first(found, items) == IF found # Empty THEN found ELSE safe_get_first(items)
        second(items) == IF Len(items) >= 2 THEN items[2] ELSE Empty
        extract_identifier_by_type(type_code) ==
            Get(first(Get(fhir_patient, "identifier"),
                      LAMBDA identifier :
                          /\ "type" \in DOMAIN identifier
                          /\ \E i \in 1..Len(Get(identifier.type, "coding")) :
                                has(identifier.type.coding[i], "code", type_code)),
                "value")
        \* common/reverse_lexicons.gender_reverse_lexicon read by Lexicon.get
        gender_reverse_lexicon(key) ==
            IF key = <<"m","a","l","e">> THEN <<"M">>
            ELSE IF key = <<"f","e","m","a","l","e">> THEN <<"F">>
            ELSE IF key = <<"o","t","h","e","r">> THEN <<"O">>
            ELSE <<"U">>
        date_of(dt) == IF dt.err # "" THEN Empty ELSE strftime(dt, "")
        parse_fhir_date(fhir_date) ==
            IF fhir_date = Empty THEN Empty ELSE date_of(fromisoformat(fhir_date))
        extract_marital_status_from_codeable_concept(marital_status) ==
            Get(first(Get(marital_status, "coding"),
                      LAMBDA code_obj :
                          /\ has(code_obj, "system",
                                 "http://terminology.hl7.org/CodeSystem/v3-MaritalStatus")
                          /\ Get(code_obj, "code") \in {<<"S">>, <<"M">>, <<"D">>, <<"W">>}),
                "code")
        omb_code(url) ==
            Get(Get(first(Get(extract_extension_by_url(Get(fhir_patient, "extension"), url),
                              "extension"),
                          LAMBDA ext : has(ext, "url", "ombCategory")
                                       /\ "valueCoding" \in DOMAIN ext),
                    "valueCoding"),
                "code")
        race_code_map(code) ==
            IF code = <<"2","1","0","6","-","3">> THEN <<"w","h","i","t","e">>
            ELSE IF code = <<"2","0","5","4","-","5">> THEN <<"b","l","a","c","k">>
            ELSE IF code = <<"2","0","2","8","-","9">> THEN <<"a","s","i","a","n">>
            ELSE IF code = <<"1","0","0","2","-","5">> THEN <<"n","a","t","i","v","e">>
            ELSE IF code = <<"2","0","7","6","-","8">> THEN <<"h","a","w","a","i","i","a","n">>
            ELSE IF code = <<"2","1","3","1","-","1">> THEN <<"o","t","h","e","r">>
            ELSE Empty
        ethnicity_code_map(code) ==
            IF code = <<"2","1","3","5","-","2">> THEN <<"h","i","s","p","a","n","i","c">>
            ELSE IF code = <<"2","1","8","6","-","5">> THEN <<"n","o","n","h","i","s","p","a","n","i","c">>
            ELSE Empty
        extract_birthplace ==
            Get(Get(extract_extension_by_url(
                        Get(fhir_patient, "extension"),
                        "http://hl7.org/fhir/StructureDefinition/patient-birthPlace"),
                    "valueAddress"),
                "text")
        \* str(ext.get("valueDecimal")): str(None) is the word None
        str_decimal(ext) ==
            IF ext = Empty THEN Empty
            ELSE IF "valueDecimal" \in DOMAIN ext THEN str_float(ext.valueDecimal)
            ELSE <<"N","o","n","e">>
        extract_geolocation(address, url) ==
            str_decimal(last(Get(extract_extension_by_url(Get(address, "extension"),
                                                          GEOLOCATION_URL),
                                 "extension"),
                             LAMBDA ext : has(ext, "url", url)))
        fhir_patient_to_csv_transform(official_name, maiden_name, home_address) ==
            [Id |-> Get(fhir_patient, "id"),
             BIRTHDATE |-> parse_fhir_date(Get(fhir_patient, "birthDate")),
             DEATHDATE |-> parse_fhir_datetime(Get(fhir_patient, "deceasedDateTime")),
             SSN |-> extract_identifier_by_type("SS"),
             DRIVERS |-> extract_identifier_by_type("DL"),
             PASSPORT |-> extract_identifier_by_type("PPN"),
             PREFIX |-> safe_get_first(Get(official_name, "prefix")),
             FIRST |-> safe_get_first(Get(official_name, "given")),
             MIDDLE |-> second(Get(official_name, "given")),
             LAST |-> Get(official_name, "family"),
             SUFFIX |-> safe_get_first(Get(official_name, "suffix")),
             MAIDEN |-> Get(maiden_name, "family"),
             MARITAL |-> extract_marital_status_from_codeable_concept(
                            Get(fhir_patient, "maritalStatus")),
             RACE |-> race_code_map(omb_code(
                         "http://hl7.org/fhir/us/core/StructureDefinition/us-core-race")),
             ETHNICITY |-> ethnicity_code_map(omb_code(
                         "http://hl7.org/fhir/us/core/StructureDefinition/us-core-ethnicity")),
             GENDER |-> gender_reverse_lexicon(Get(fhir_patient, "gender")),
             BIRTHPLACE |-> extract_birthplace,
             ADDRESS |-> safe_get_first(Get(home_address, "line")),
             CITY |-> Get(home_address, "city"),
             COUNTY |-> Get(home_address, "district"),
             ZIP |-> Get(home_address, "postalCode"),
             LAT |-> extract_geolocation(home_address, "latitude"),
             LON |-> extract_geolocation(home_address, "longitude")]
            @@ ("STATE" :> Get(home_address, "state"))
    IN  IF ~has(fhir_patient, "resourceType", "Patient")
        THEN [row |-> Empty, err |-> "ValueError"]
        ELSE [row |-> fhir_patient_to_csv_transform(
                         or_first(first(Get(fhir_patient, "name"),
                                        LAMBDA n : has(n, "use", "official")),
                                  Get(fhir_patient, "name")),
                         last(Get(fhir_patient, "name"), LAMBDA n : has(n, "use", "maiden")),
                         or_first(first(Get(fhir_patient, "address"),
                                        LAMBDA addr : has(addr, "use", "home")),
                                  Get(fhir_patient, "address"))),
              err |-> ""]
\* A patients row about to be mapped by either tree, or a resource handed to
\* the reverse mapper from outside.  The rows combine an Id, a BIRTHDATE and a
\* GENDER with the name columns and with the remaining columns, which are all
\* empty, all filled (STATE with ADDRESS), or hold coordinates only.
InitPatient ==
    /\ mapper = "patient"
    /\ tree \in {1, 2}
    /\ \/ /\ pc = "start"
          /\ res = Empty
          /\ row \in
               {core @@ name @@ rest
                    @@ ("STATE" :> IF rest.ADDRESS = Empty THEN Empty ELSE <<"M","A">>) :
                  core \in [Id : {<<"p","1">>, <<" ","p">>, Empty},
                            BIRTHDATE : {<<"1","9","8","5","-","0","3","-","1","5">>, <<"x">>, Empty},
                            GENDER : {<<"M">>, <<"F">>, <<"O">>, <<"U">>, <<"m">>, Empty}],
                  name \in [FIRST : {<<"J","o">>, Empty}, LAST : {<<"S","m">>, Empty},
                            PREFIX : {Empty}, SUFFIX : {Empty}, MAIDEN : {Empty}]
                           \cup [FIRST : {<<"J","o">>}, LAST : {<<"S","m">>, Empty},
                                 PREFIX : {<<"D","r">>}, SUFFIX : {<<"J","r">>}, MAIDEN : {<<"D","o">>}],
                  rest \in
                    [DEATHDATE : {Empty}, SSN : {Empty}, DRIVERS : {Empty}, PASSPORT : {Empty},
                     MARITAL : {Empty}, RACE : {Empty}, ETHNICITY : {Empty},
                     BIRTHPLACE : {Empty}, ADDRESS : {Empty}, CITY : {Empty},
                     COUNTY : {Empty}, ZIP : {Empty},
                     LAT : {Empty, <<"4","2",".","1">>, <<"x">>}, LON : {Empty, <<"-","7","1">>}]
                    \cup [DEATHDATE : {<<"2","0","2","0","-","0","1","-","0","2"," ","0","3",":","0","4",":","0","5">>}, SSN : {<<"9","-","1">>},
                          DRIVERS : {<<"S","9">>}, PASSPORT : {<<"X","1">>},
                          MARITAL : {<<"M">>, <<"s">>}, RACE : {<<"w","h","i","t","e">>, <<"A","s","i","a","n">>},
                          ETHNICITY : {<<"n","o","n","h","i","s","p","a","n","i","c">>}, BIRTHPLACE : {<<"B","o">>},
                          ADDRESS : {<<"1"," ","A">>}, CITY : {<<"B","o">>},
                          COUNTY : {<<"S","u">>}, ZIP : {<<"0","2","1">>},
                          LAT : {<<"4","2",".","1">>}, LON : {<<"-","7","1">>}]
                    \cup [DEATHDATE : {Empty}, SSN : {<<" ","9"," ">>},
                          DRIVERS : {<<"S","9">>}, PASSPORT : {<<"X","1">>},
                          MARITAL : {<<"W">>}, RACE : {<<"o","t","h","e","r">>},
                          ETHNICITY : {<<"h","i","s","p","a","n","i","c">>}, BIRTHPLACE : {Empty},
                          ADDRESS : {<<"1",","," ","A">>}, CITY : {<<"B","o">>},
                          COUNTY : {Empty}, ZIP : {<<"0","2","1">>},
                          LAT : {Empty}, LON : {Empty}]}
       \/ /\ pc = "given"
          /\ tree = 1
          /\ row = Empty
          /\ res \in
               {[resourceType |-> "Patient"],
                [resourceType |-> "Observation"],
                [resourceType |-> "Patient", gender |-> <<"f","e","m","a","l","e">>,
                 name |-> <<[use |-> "usual", given |-> <<<<"J","o">>, <<"A","l">>>>, family |-> <<"S","m">>]>>],
                [resourceType |-> "Patient",
                 address |-> <<[city |-> <<"B","o">>,
                                extension |-> <<[url |-> GEOLOCATION_URL,
                                                 extension |-> <<[url |-> "latitude"]>>]>>]>>]}
    /\ csv = Empty
    /\ err = ""

\* to_fhir/patient.map_patient (tree 1) or fhir_mappers/patient.map_patient
\* (tree 2) applied to the row.
MapPatient ==
    /\ mapper = "patient" /\ pc = "start"
    /\ LET r == IF tree = 1 THEN patient_transform(row)
                ELSE [res |-> lib_map_patient(row), err |-> ""]
       IN  /\ res' = r.res
           /\ err' = r.err
           /\ pc' = IF r.err = "" THEN "mapped" ELSE "raised"
    /\ UNCHANGED <<mapper, tree, row, csv>>

\* to_synthea_csv/patient.map_fhir_patient_to_csv applied to the resource (the
\* fhir_mappers tree has no reverse Patient mapper).
MapFhirPatientToCsv ==
    /\ mapper = "patient" /\ tree = 1 /\ pc \in {"mapped", "given"}
    /\ LET r == map_fhir_patient_to_csv(res)
       IN  /\ csv' = r.row
           /\ err' = r.err
           /\ pc' = IF r.err = "" THEN "reversed" ELSE "raised"
    /\ UNCHANGED <<mapper, tree, row, res>>

NextPatient == MapPatient \/ MapFhirPatientToCsv

SpecPatient == InitPatient /\ [][NextPatient]_vars
\* ------------------------------------------------------------------ claims C16, C17, C19

\* C16: for each of the GENDER codes M, F, O and U the forward Patient mapper
\* of either tree emits gender male, female, other and unknown respectively,
\* and the reverse Patient mapper returns the original code.
C16_GenderRoundTrip ==
    (mapper = "patient" /\ pc \in {"mapped", "reversed"} /\ row # Empty
        /\ row.GENDER \in {<<"M">>, <<"F">>, <<"O">>, <<"U">>}) =>
        /\ Get(res, "gender") = (IF row.GENDER = <<"M">> THEN <<"m","a","l","e">>
                                 ELSE IF row.GENDER = <<"F">> THEN <<"f","e","m","a","l","e">>
                                 ELSE IF row.GENDER = <<"O">> THEN <<"o","t","h","e","r">>
                                 ELSE <<"u","n","k","n","o","w","n">>)
        /\ pc = "reversed" => csv.GENDER = row.GENDER

C19_ReverseRowShape ==
    (mapper = "patient" /\ pc = "reversed") =>
        /\ DOMAIN csv = {"Id", "BIRTHDATE", "DEATHDATE", "SSN", "DRIVERS", "PASSPORT",
                         "PREFIX", "FIRST", "MIDDLE", "LAST", "SUFFIX", "MAIDEN",
                         "MARITAL", "RACE", "ETHNICITY", "GENDER", "BIRTHPLACE",
                         "ADDRESS", "CITY", "STATE", "COUNTY", "ZIP", "LAT", "LON"}
        /\ \A c \in DOMAIN csv : \A i \in 1..Len(csv[c]) : csv[c][i] \in STRING
        /\ \A source \in {<<"id", {"Id"}>>, <<"birthDate", {"BIRTHDATE"}>>,
                          <<"deceasedDateTime", {"DEATHDATE"}>>,
                          <<"identifier", {"SSN", "DRIVERS", "PASSPORT"}>>,
                          <<"name", {"PREFIX", "FIRST", "MIDDLE", "LAST", "SUFFIX", "MAIDEN"}>>,
                          <<"maritalStatus", {"MARITAL"}>>,
                          <<"extension", {"RACE", "ETHNICITY", "BIRTHPLACE"}>>,
                          <<"gender", {"GENDER"}>>,
                          <<"address", {"ADDRESS", "CITY", "STATE", "COUNTY", "ZIP",
                                        "LAT", "LON"}>>} :
              source[1] \notin DOMAIN res => \A c \in source[2] : csv[c] = Empty
        /\ \A i \in 1..Len(Get(res, "address")) :
              \A j \in 1..Len(Get(res.address[i], "extension")) :
                 \A k \in 1..Len(res.address[i].extension[j].extension) :
                    "valueDecimal" \notin DOMAIN res.address[i].extension[j].extension[k]
                        => csv.LAT = Empty /\ csv.LON = Empty

\* ------------------------------------------------------------------ condition

\* to_fhir/condition.condition_transform with its _generate_id (condition_id),
\* _build_clinical_status, _build_verification_status, _build_category,
\* _build_code (condition_code) and filter_none_values (a None, "" or [] entry is dropped at the
\* top level only).
condition_transform(src) ==
    LET col(c) == Get(src, c)
        concept(system, code, display) ==
            [coding |-> <<[system |-> system, code |-> code, display |-> display]>>]
        condition_id ==
            IF col("PATIENT") # Empty /\ col("START") # Empty /\ col("CODE") # Empty
            THEN <<"c","o","n","d","-">> \o col("PATIENT") \o <<"-">>
                    \o SelectSeq(col("START"), LAMBDA c : c \notin {" ", ":", "-"})
                    \o <<"-">> \o col("CODE")
            ELSE Empty
        clinical_status ==
            IF col("STOP") # Empty
            THEN concept("http://terminology.hl7.org/CodeSystem/condition-clinical",
                         "resolved", "Resolved")
            ELSE concept("http://terminology.hl7.org/CodeSystem/condition-clinical",
                         "active", "Active")
        condition_code ==
            IF col("CODE") = Empty THEN Empty
            ELSE "code" :> [coding |-> <<[system |-> "http://snomed.info/sct",
                                          code |-> col("CODE"),
                                          display |-> col("DESCRIPTION")]>>,
                            text |-> col("DESCRIPTION")]
    IN  ("resourceType" :> "Condition")
        @@ Opt("id", condition_id)
        @@ ("clinicalStatus" :> clinical_status)
        @@ ("verificationStatus" :>
                concept("http://terminology.hl7.org/CodeSystem/condition-ver-status",
                        "confirmed", "Confirmed"))
        @@ ("category" :>
                <<concept("http://terminology.hl7.org/CodeSystem/condition-category",
                          "encounter-diagnosis", "Encounter Diagnosis")>>)
        @@ condition_code
        @@ (IF col("PATIENT") # Empty
            THEN "subject" :> create_reference("Patient", col("PATIENT")) ELSE Empty)
        @@ (IF col("ENCOUNTER") # Empty
            THEN "encounter" :> create_reference("Encounter", col("ENCOUNTER")) ELSE Empty)
        @@ Opt("onsetDateTime", to_fhir_datetime(col("START")))
        @@ Opt("abatementDateTime",
               IF col("STOP") # Empty THEN to_fhir_datetime(col("STOP")) ELSE Empty)

\* ------------------------------------------------------------------ careplan

\* to_fhir/careplan.careplan_transform with _get (the first non-empty of the
\* column's spellings), _build_status, _build_category, _build_period,
\* _build_reason_note, to_fhir_date and filter_none_values (top level only).
careplan_transform(src) ==
    LET _get(upper_key, other_key) ==
            IF Get(src, upper_key) # Empty THEN src[upper_key] ELSE Get(src, other_key)
        to_fhir_date(value) ==
            IF to_fhir_datetime(value) = Empty THEN Empty
            ELSE SubSeq(to_fhir_datetime(value), 1, 10)
        category(code, display) ==
            IF code = Empty THEN Empty
            ELSE <<[coding |-> <<[system |-> "http://snomed.info/sct", code |-> code,
                                  display |-> display]>>,
                    text |-> display]>>
        period(start, stop) ==
            IF start = Empty /\ stop = Empty THEN Empty
            ELSE [start |-> to_fhir_date(start), end |-> to_fhir_date(stop)]
        \* "Reason: " + " ".join(text_parts)
        reason_note(reason_code, reason_desc) ==
            IF reason_code = Empty /\ reason_desc = Empty THEN Empty
            ELSE <<[text |-> <<"R","e","a","s","o","n",":"," ">> \o reason_desc
                             \o (IF reason_desc # Empty /\ reason_code # Empty
                                 THEN <<" ">> ELSE Empty)
                             \o (IF reason_code # Empty
                                 THEN <<"(">> \o reason_code \o <<")">> ELSE Empty)]>>
    IN  ("resourceType" :> "CarePlan")
        @@ Opt("id", _get("Id", "ID"))
        @@ ("status" :> IF _get("STOP", "Stop") # Empty THEN "completed" ELSE "active")
        @@ ("intent" :> "plan")
        @@ Opt("category", category(_get("CODE", "Code"), _get("DESCRIPTION", "Description")))
        @@ Opt("title", _get("DESCRIPTION", "Description"))
        @@ Opt("description", _get("DESCRIPTION", "Description"))
        @@ (IF _get("PATIENT", "Patient") # Empty
            THEN "subject" :> create_reference("Patient", _get("PATIENT", "Patient"))
            ELSE Empty)
        @@ (IF _get("ENCOUNTER", "Encounter") # Empty
            THEN "encounter" :> create_reference("Encounter", _get("ENCOUNTER", "Encounter"))
            ELSE Empty)
        @@ Opt("period", period(_get("START", "Start"), _get("STOP", "Stop")))
        @@ Opt("note", reason_note(_get("REASONCODE", "ReasonCode"),
                                   _get("REASONDESCRIPTION", "ReasonDescription")))

\* to_synthea_csv/careplan.fhir_careplan_to_csv_transform with
\* _extract_category_code_and_display, _extract_reason_from_notes,
\* parse_fhir_date and filter_none_values (None becomes "").
fhir_careplan_to_csv_transform(fhir_careplan) ==
    LET \* the body of a note that starts with "reason:" is the text after the
        \* first colon, stripped; when it ends with ")" and holds a "(", it is
        \* split at the last "("
        split(body, opens) ==
            IF body # Empty /\ body[Len(body)] = ")" /\ opens # {}
            THEN LET at == CHOOSE i \in opens : \A j \in opens : j <= i
                 IN  [code |-> strip(SubSeq(body, at + 1, Len(body) - 1)),
                      desc |-> strip(SubSeq(body, 1, at - 1))]
            ELSE [code |-> Empty, desc |-> body]
        parse(body) == split(body, {i \in 1..Len(body) : body[i] = "("})
        reason_from_note(text) == parse(strip(SubSeq(text, 8, Len(text))))
        parse_fhir_date(fhir_date) ==
            LET date_of(dt) == IF dt.err # "" THEN Empty ELSE strftime(dt, "")
            IN  IF fhir_date = Empty THEN Empty ELSE date_of(fromisoformat(fhir_date))
        period == Get(fhir_careplan, "period")
        category == IF Get(fhir_careplan, "category") = Empty THEN Empty
                    ELSE fhir_careplan["category"][1]
        codings == Get(category, "coding")
        snomed == {i \in 1..Len(codings) :
                      "system" \in DOMAIN codings[i]
                      /\ codings[i].system = "http://snomed.info/sct"}
        \* the SNOMED coding, else the first coding, else the text
        coded == IF snomed # {}
                 THEN codings[CHOOSE i \in snomed : \A j \in snomed : i <= j]
                 ELSE IF codings # Empty THEN codings[1]
                 ELSE [display |-> Get(category, "text")]
        display == Get(coded, "display")
        notes == Get(fhir_careplan, "note")
        reasons == {i \in 1..Len(notes) :
                       /\ Get(notes[i], "text") # Empty
                       /\ Len(notes[i].text) >= 7
                       /\ lower(SubSeq(notes[i].text, 1, 7)) = <<"r","e","a","s","o","n",":">>}
        reason == IF reasons = {} THEN [code |-> Empty, desc |-> Empty]
                  ELSE reason_from_note(notes[CHOOSE i \in reasons : \A j \in reasons : i <= j].text)
    IN  IF fhir_careplan = Empty \/ Get(fhir_careplan, "resourceType") # "CarePlan"
        THEN [row |-> Empty, err |-> "ValueError"]
        ELSE [row |-> [Id |-> Get(fhir_careplan, "id"),
                       START |-> parse_fhir_date(Get(period, "start")),
                       STOP |-> parse_fhir_date(Get(period, "end")),
                       PATIENT |-> extract_reference_id(Get(fhir_careplan, "subject")),
                       ENCOUNTER |-> extract_reference_id(Get(fhir_careplan, "encounter")),
                       SYSTEM |-> IF snomed = {} /\ codings # Empty /\ "system" \in DOMAIN codings[1]
                                  THEN codings[1].system ELSE "http://snomed.info/sct",
                       CODE |-> Get(coded, "code"),
                       DESCRIPTION |-> IF display # Empty THEN display
                                       ELSE IF Get(fhir_careplan, "title") # Empty
                                       THEN fhir_careplan["title"]
                                       ELSE Get(fhir_careplan, "description"),
                       REASONCODE |-> reason.code,
                       REASONDESCRIPTION |-> reason.desc],
              err |-> ""]

\* ------------------------------------------------------------------ claim

\* to_fhir/claim.map_claim with _non_empty (every column is read stripped),
\* _build_identifier, _build_type, _build_insurance, _build_extensions,
\* _build_diagnoses, _build_care_team, _build_billable_period, _build_events
\* and _collect_notes; a None entry is dropped at the top level.
map_claim(claims_row) ==
    LET _non_empty(c) == strip(Get(claims_row, c))
        one(v, x) == IF v = Empty THEN Empty ELSE <<x>>
        to_fhir_date(value) ==
            IF to_fhir_datetime(value) = Empty THEN Empty
            ELSE SubSeq(to_fhir_datetime(value), 1, 10)
        \* to_fhir_date(x) or to_fhir_datetime(x), and the other way round
        date_first(x) == IF to_fhir_date(x) # Empty THEN to_fhir_date(x) ELSE to_fhir_datetime(x)
        datetime_first(x) == IF to_fhir_datetime(x) # Empty THEN to_fhir_datetime(x) ELSE to_fhir_date(x)
        type1 == _non_empty("HealthcareClaimTypeID1")
        type2 == _non_empty("HealthcareClaimTypeID2")
        code_val == IF type1 = <<"1">> THEN "professional"
                    ELSE IF type1 = <<"2">> THEN "institutional"
                    ELSE IF type2 = <<"1">> THEN "professional"
                    ELSE IF type2 = <<"2">> THEN "institutional"
                    ELSE ""
        insurance ==
            one(_non_empty("Primary Patient Insurance ID"),
                [sequence |-> 1, focal |-> TRUE,
                 coverage |-> create_reference("Coverage", _non_empty("Primary Patient Insurance ID"))])
            \o one(_non_empty("Secondary Patient Insurance ID"),
                   [sequence |-> 2, focal |-> FALSE,
                    coverage |-> create_reference("Coverage", _non_empty("Secondary Patient Insurance ID"))])
        extension ==
            one(_non_empty("Department ID"),
                [url |-> "http://synthea.tools/StructureDefinition/department-id",
                 valueString |-> _non_empty("Department ID")])
            \o one(_non_empty("Patient Department ID"),
                   [url |-> "http://synthea.tools/StructureDefinition/patient-department-id",
                    valueString |-> _non_empty("Patient Department ID")])
        diagnosis_entry(i) ==
            one(_non_empty("Diagnosis" \o ToString(i)),
                [sequence |-> i,
                 diagnosisCodeableConcept |->
                     [coding |-> <<[system |-> "http://snomed.info/sct",
                                    code |-> _non_empty("Diagnosis" \o ToString(i))]>>]])
        diagnosis == Flatten([i \in 1..8 |-> diagnosis_entry(i)])
        care_team ==
            one(_non_empty("Supervising Provider ID"),
                [sequence |-> 1,
                 provider |-> create_reference("Practitioner", _non_empty("Supervising Provider ID")),
                 role |-> [text |-> "supervising"]])
        event(column, code) ==
            one(_non_empty(column),
                [type |-> [coding |-> <<[system |-> "http://synthea.tools/CodeSystem/claim-event",
                                         code |-> code]>>],
                 whenDateTime |-> datetime_first(_non_empty(column))])
        events == event("Current Illness Date", "onset")
                  \o event("LastBilledDate1", "bill-primary")
                  \o event("LastBilledDate2", "bill-secondary")
                  \o event("LastBilledDateP", "bill-patient")
        \* "; ".join of "<column>: <value>" over the columns that hold a value
        note_part(k, label) == one(_non_empty(k), label \o <<":"," ">> \o _non_empty(k))
        note_parts == note_part("Status1", <<"S","t","a","t","u","s","1">>) \o note_part("Status2", <<"S","t","a","t","u","s","2">>)
                      \o note_part("StatusP", <<"S","t","a","t","u","s","P">>)
                      \o note_part("Outstanding1", <<"O","u","t","s","t","a","n","d","i","n","g","1">>)
                      \o note_part("Outstanding2", <<"O","u","t","s","t","a","n","d","i","n","g","2">>)
                      \o note_part("OutstandingP", <<"O","u","t","s","t","a","n","d","i","n","g","P">>)
        joined(parts) == Flatten([i \in 1..Len(parts) |->
                                     IF i = 1 THEN parts[i] ELSE <<";"," ">> \o parts[i]])
        item == (IF _non_empty("Appointment ID") # Empty
                 THEN "encounter" :> <<create_reference("Encounter", _non_empty("Appointment ID"))>>
                 ELSE Empty)
                @@ (IF _non_empty("Service Date") # Empty
                    THEN "servicedDate" :> date_first(_non_empty("Service Date"))
                    ELSE Empty)
    IN  ("resourceType" :> "Claim")
        @@ Opt("id", _non_empty("Id"))
        @@ Opt("identifier", one(_non_empty("Id"),
                                 [system |-> "urn:synthea:claim", value |-> _non_empty("Id"),
                                  use |-> "official"]))
        @@ (IF code_val = "" THEN Empty
            ELSE "type" :> [coding |-> <<[system |-> "http://terminology.hl7.org/CodeSystem/claim-type",
                                          code |-> code_val]>>,
                            text |-> code_val])
        @@ (IF _non_empty("Patient ID") # Empty
            THEN "patient" :> create_reference("Patient", _non_empty("Patient ID")) ELSE Empty)
        @@ (IF _non_empty("Provider ID") # Empty
            THEN "provider" :> create_reference("Practitioner", _non_empty("Provider ID")) ELSE Empty)
        @@ Opt("insurance", insurance)
        @@ Opt("extension", extension)
        @@ Opt("diagnosis", diagnosis)
        @@ Opt("careTeam", care_team)
        @@ (IF _non_empty("Service Date") # Empty
            THEN "billablePeriod" :> [start |-> date_first(_non_empty("Service Date")),
                                      end |-> date_first(_non_empty("Service Date"))]
            ELSE Empty)
        @@ Opt("item", one(item, item))
        @@ Opt("event", events)
        @@ Opt("note", one(note_parts, [text |-> joined(note_parts)]))

\* to_synthea_csv/claim.map_fhir_claim_to_claims_row with
\* _primary_secondary_coverage_ids, _extract_type_ids, _extract_diagnosis_codes,
\* _extract_event_date and _safe (None becomes "").  The isinstance guards are
\* left out: every list and object here has the type the guard asks for.
map_fhir_claim_to_claims_row(claim) ==
    LET parse_fhir_date(fhir_date) ==
            LET date_of(dt) == IF dt.err # "" THEN Empty ELSE strftime(dt, "")
            IN  IF fhir_date = Empty THEN Empty ELSE date_of(fromisoformat(fhir_date))
        insurance == Get(claim, "insurance")
        \* sorted(insurance, key=(not focal, sequence or 99)): a stable sort
        rank(e) == (IF "focal" \in DOMAIN e /\ e.focal THEN 0 ELSE 100)
                   + (IF "sequence" \in DOMAIN e /\ e.sequence # 0 THEN e.sequence ELSE 99)
        before_in_sorted(i, j) ==
            rank(insurance[i]) < rank(insurance[j])
            \/ (rank(insurance[i]) = rank(insurance[j]) /\ i < j)
        place(i) == 1 + Cardinality({j \in 1..Len(insurance) : before_in_sorted(j, i)})
        sorted_ins == [p \in 1..Len(insurance) |->
                          insurance[CHOOSE i \in 1..Len(insurance) : place(i) = p]]
        cov_ids == SelectSeq([p \in 1..Len(insurance) |->
                                 extract_reference_id(Get(sorted_ins[p], "coverage"))],
                             LAMBDA c : c # Empty)
        exts == Get(claim, "extension")
        \* the valueString of the last extension with the URL
        ext_value(url) ==
            LET hits == {i \in 1..Len(exts) : exts[i].url = url /\ "valueString" \in DOMAIN exts[i]}
            IN  IF hits = {} THEN Empty
                ELSE exts[CHOOSE i \in hits : \A j \in hits : j <= i].valueString
        diags == Get(claim, "diagnosis")
        \* the code of the SNOMED coding (else of the first coding) of the last
        \* diagnosis with the sequence number
        diag_code(n) ==
            LET code_of(concept) ==
                    LET codings == Get(concept, "coding")
                        snomed == {i \in 1..Len(codings) :
                                      "system" \in DOMAIN codings[i]
                                      /\ codings[i].system = "http://snomed.info/sct"}
                        coding == IF snomed # {}
                                  THEN codings[CHOOSE i \in snomed : \A j \in snomed : i <= j]
                                  ELSE IF codings # Empty THEN codings[1] ELSE Empty
                    IN  IF codings = Empty THEN Empty
                        ELSE IF Get(coding, "code") # Empty THEN coding.code
                        ELSE Get(concept, "text")
                hits == {i \in 1..Len(diags) :
                            /\ "sequence" \in DOMAIN diags[i] /\ diags[i].sequence = n
                            /\ code_of(Get(diags[i], "diagnosisCodeableConcept")) # Empty}
            IN  IF hits = {} THEN Empty
                ELSE code_of(diags[CHOOSE i \in hits : \A j \in hits : j <= i].diagnosisCodeableConcept)
        events == Get(claim, "event")
        \* the first event holding a coding of the local system with the code
        event_date(code) ==
            LET codings(e) == Get(Get(e, "type"), "coding")
                hits == {i \in 1..Len(events) :
                            \E k \in 1..Len(codings(events[i])) :
                                /\ codings(events[i])[k].system
                                       = "http://synthea.tools/CodeSystem/claim-event"
                                /\ codings(events[i])[k].code = code}
            IN  IF hits = {} THEN Empty
                ELSE parse_fhir_datetime(
                         Get(events[CHOOSE i \in hits : \A j \in hits : i <= j], "whenDateTime"))
        items == Get(claim, "item")
        encs == IF items = Empty THEN Empty ELSE Get(items[1], "encounter")
        bill == Get(claim, "billablePeriod")
        care_team == Get(claim, "careTeam")
        \* the first careTeam entry with role text "supervising" or none, and
        \* with a provider id
        supervisors == {i \in 1..Len(care_team) :
                           /\ \/ "role" \notin DOMAIN care_team[i]
                              \/ "text" \notin DOMAIN care_team[i].role
                              \/ care_team[i].role.text = "supervising"
                           /\ extract_reference_id(Get(care_team[i], "provider")) # Empty}
        type_code == IF "type" \in DOMAIN claim /\ Get(claim["type"], "coding") # Empty
                     THEN IF "code" \in DOMAIN claim["type"].coding[1]
                          THEN claim["type"].coding[1].code
                          ELSE IF "text" \in DOMAIN claim["type"] THEN claim["type"].text ELSE ""
                     ELSE ""
    IN  IF claim = Empty \/ Get(claim, "resourceType") # "Claim"
        THEN [row |-> Empty, err |-> "ValueError"]
        ELSE [row |->
                  ("Id" :> Get(claim, "id"))
                  @@ ("Patient ID" :> extract_reference_id(Get(claim, "patient")))
                  @@ ("Provider ID" :> extract_reference_id(Get(claim, "provider")))
                  @@ ("Primary Patient Insurance ID" :>
                          IF Len(cov_ids) >= 1 THEN cov_ids[1] ELSE Empty)
                  @@ ("Secondary Patient Insurance ID" :>
                          IF Len(cov_ids) >= 2 THEN cov_ids[2] ELSE Empty)
                  @@ ("Department ID" :>
                          ext_value("http://synthea.tools/StructureDefinition/department-id"))
                  @@ ("Patient Department ID" :>
                          ext_value("http://synthea.tools/StructureDefinition/patient-department-id"))
                  @@ ("Referring Provider ID" :> Empty)
                  @@ ("Appointment ID" :>
                          IF encs = Empty THEN Empty ELSE extract_reference_id(encs[1]))
                  @@ ("Current Illness Date" :> event_date("onset"))
                  @@ ("Service Date" :>
                          IF parse_fhir_date(Get(bill, "start")) # Empty
                          THEN parse_fhir_date(Get(bill, "start"))
                          ELSE parse_fhir_date(Get(bill, "end")))
                  @@ ("Supervising Provider ID" :>
                          IF supervisors = {} THEN Empty
                          ELSE extract_reference_id(
                                   care_team[CHOOSE i \in supervisors :
                                                 \A j \in supervisors : i <= j].provider))
                  @@ [k \in {"Status1", "Status2", "StatusP",
                             "Outstanding1", "Outstanding2", "OutstandingP"} |-> Empty]
                  @@ ("LastBilledDate1" :> event_date("bill-primary"))
                  @@ ("LastBilledDate2" :> event_date("bill-secondary"))
                  @@ ("LastBilledDateP" :> event_date("bill-patient"))
                  @@ ("HealthcareClaimTypeID1" :>
                          IF type_code = "professional" THEN <<"1">>
                          ELSE IF type_code = "institutional" THEN <<"2">> ELSE Empty)
                  @@ ("HealthcareClaimTypeID2" :> Empty)
                  @@ [k \in {"Diagnosis" \o ToString(i) : i \in 1..8} |->
                         diag_code(CHOOSE i \in 1..8 : k = "Diagnosis" \o ToString(i))],
              err |-> ""]

\* ------------------------------------------------------------------ claims transactions

\* to_fhir/claims_transactions.map_claims_transaction: the pair of _build_claim
\* and _build_claim_response, with _as_decimal and _first_non_empty.  The row
\* holds every column read (an empty column is ""), so "id" is always written.
\* A None entry is dropped from the item and from the top level only.
map_claims_transaction(src) ==
    LET col(c) == Get(src, c)
        one(v, x) == IF v = Empty THEN Empty ELSE <<x>>
        \* float(str(value)), None for "" and for what float() refuses
        has_decimal(c) == col(c) # Empty /\ float(col(c)).k # "err"
        money(c) == [value |-> float(col(c)), currency |-> "USD"]
        \* int(charge_id) when the string is all digits
        has_sequence == col("Charge ID") # Empty /\ Chars(col("Charge ID")) \subseteq Digits
        sequence == ToNat(col("Charge ID"))
        \* int(v) of each non-empty DiagnosisRef that int() accepts
        diagnosis_ref(c) == IF col(c) # Empty /\ int_str(col(c)).err = ""
                            THEN <<int_str(col(c)).n>> ELSE Empty
        diagnosis_sequences == diagnosis_ref("DiagnosisRef1") \o diagnosis_ref("DiagnosisRef2")
                               \o diagnosis_ref("DiagnosisRef3") \o diagnosis_ref("DiagnosisRef4")
        notes_texts == one(col("Notes"), [text |-> col("Notes")])
                       \o one(col("Line Note"), [text |-> col("Line Note")])
        claim_item ==
            (IF has_sequence THEN "sequence" :> sequence ELSE Empty)
            @@ (IF col("Procedure Code") = Empty THEN Empty
                ELSE "productOrService" :>
                         [coding |-> <<[system |-> "http://snomed.info/sct",
                                        code |-> col("Procedure Code"),
                                        display |-> IF col("Notes") # Empty THEN col("Notes")
                                                    ELSE col("Line Note")]>>,
                          text |-> col("Procedure Code")])
            @@ (IF has_decimal("Units") THEN "quantity" :> [value |-> float(col("Units"))]
                ELSE Empty)
            @@ (IF has_decimal("Unit Amount") THEN "unitPrice" :> money("Unit Amount") ELSE Empty)
            @@ (IF has_decimal("Amount") THEN "net" :> money("Amount") ELSE Empty)
            @@ Opt("diagnosisSequence", diagnosis_sequences)
            @@ (IF col("Appointment ID") # Empty
                THEN "encounter" :> <<create_reference("Encounter", col("Appointment ID"))>>
                ELSE Empty)
        reference(key, resource_type, c) ==
            IF col(c) # Empty THEN key :> create_reference(resource_type, col(c)) ELSE Empty
        _build_claim ==
            ("resourceType" :> "Claim")
            @@ ("id" :> col("Claim ID"))
            @@ reference("patient", "Patient", "Patient ID")
            @@ reference("provider", "Practitioner", "Provider ID")
            @@ reference("facility", "Organization", "Place of Service")
            @@ (IF col("From Date") # Empty \/ col("To Date") # Empty
                THEN "billablePeriod" :> [start |-> to_fhir_datetime(col("From Date")),
                                          end |-> to_fhir_datetime(col("To Date"))]
                ELSE Empty)
            @@ Opt("item", one(claim_item, claim_item))
            @@ Opt("note", notes_texts)
            @@ (IF col("Patient Insurance ID") # Empty
                THEN "insurance" :> <<[sequence |-> 1, focal |-> TRUE,
                                       coverage |-> create_reference("Coverage",
                                                                     col("Patient Insurance ID"))]>>
                ELSE Empty)
            @@ (IF col("Supervising Provider ID") # Empty
                THEN "careTeam" :> <<[sequence |-> 1,
                                      provider |-> create_reference("Practitioner",
                                                                    col("Supervising Provider ID")),
                                      role |-> [text |-> "supervising"]]>>
                ELSE Empty)
        _adj(cat_code, c) ==
            [category |-> [coding |-> <<[system |->
                                             "http://synthea.tools/CodeSystem/claims-transaction-type",
                                         code |-> cat_code]>>],
             amount |-> money(c)]
        \* f"transfer: out_id={...}, type={...}"
        reason == IF col("Transfer Out ID") # Empty \/ col("Transfer Type") # Empty
                  THEN "reason" :> [text |-> <<"t","r","a","n","s","f","e","r",":"," ","o","u","t","_","i","d","=">> \o col("Transfer Out ID")
                                             \o <<","," ","t","y","p","e","=">> \o col("Transfer Type")]
                  ELSE Empty
        adjudications ==
            (IF has_decimal("Payments") THEN <<_adj("payment", "Payments")>> ELSE Empty)
            \o (IF has_decimal("Adjustments") THEN <<_adj("adjustment", "Adjustments")>> ELSE Empty)
            \o (IF has_decimal("Transfers") THEN <<_adj("transfer", "Transfers") @@ reason>>
                ELSE Empty)
        notes == (IF has_decimal("Outstanding")
                  THEN <<[text |-> <<"O","u","t","s","t","a","n","d","i","n","g",":"," ">> \o str_float(float(col("Outstanding")))]>>
                  ELSE Empty)
                 \o notes_texts
        payment ==
            [type |-> [coding |-> one(col("Method"),
                                      [system |-> "http://synthea.tools/CodeSystem/payment-method",
                                       code |-> col("Method")]),
                       text |-> col("Method")],
             amount |-> money("Payments"),
             date |-> IF to_fhir_datetime(col("To Date")) # Empty
                      THEN to_fhir_datetime(col("To Date"))
                      ELSE to_fhir_datetime(col("From Date"))]
        response_item == (IF has_sequence THEN "itemSequence" :> sequence ELSE Empty)
                         @@ Opt("adjudication", adjudications)
        _build_claim_response ==
            ("resourceType" :> "ClaimResponse")
            @@ ("id" :> col("Id"))
            @@ ("status" :> "active")
            @@ ("outcome" :> "complete")
            @@ reference("patient", "Patient", "Patient ID")
            @@ reference("request", "Claim", "Claim ID")
            @@ Opt("item", one(response_item, response_item))
            @@ (IF col("Type") = <<"P","A","Y","M","E","N","T">> /\ has_decimal("Payments")
                THEN "payment" :> payment ELSE Empty)
            @@ Opt("note", notes)
    IN  <<_build_claim, _build_claim_response>>

\* to_synthea_csv/claims_transactions.map_fhir_claimresponse_to_claims_transaction
\* with _safe_str, _first_coding_code and _collect_notes.  The isinstance
\* guards are left out: every list and object here has the type the guard asks
\* for.  An amount is written by str() of the float.
map_fhir_claimresponse_to_claims_transaction(claim_response) ==
    LET item_list == Get(claim_response, "item")
        first_item == IF item_list = Empty THEN Empty ELSE item_list[1]
        adjudication == Get(first_item, "adjudication")
        payment == Get(claim_response, "payment")
        is_payment == "amount" \in DOMAIN payment /\ "value" \in DOMAIN payment.amount
        ptype == Get(payment, "type")
        method == IF ~is_payment \/ ptype = Empty THEN Empty
                  ELSE IF Get(ptype, "coding") # Empty /\ Get(ptype.coding[1], "code") # Empty
                  THEN ptype.coding[1].code
                  ELSE Get(ptype, "text")
        \* _first_coding_code of the category; the codes are whole words
        code(adj) == IF "category" \in DOMAIN adj /\ Get(adj.category, "coding") # Empty
                        /\ "code" \in DOMAIN adj.category.coding[1]
                     THEN adj.category.coding[1].code ELSE ""
        has_amount(adj) == "amount" \in DOMAIN adj /\ "value" \in DOMAIN adj.amount
        \* the first adjudication that is an adjustment or a transfer with an amount
        typed == {i \in 1..Len(adjudication) :
                     code(adjudication[i]) \in {"adjustment", "transfer"}
                     /\ has_amount(adjudication[i])}
        first_typed == adjudication[CHOOSE i \in typed : \A j \in typed : i <= j]
        \* the fallback: the first adjudication with an amount
        amounts == {i \in 1..Len(adjudication) : has_amount(adjudication[i])}
        first_amount == adjudication[CHOOSE i \in amounts : \A j \in amounts : i <= j]
        txn_type == IF is_payment THEN <<"P","A","Y","M","E","N","T">>
                    ELSE IF typed # {}
                    THEN (IF code(first_typed) = "adjustment" THEN <<"A","D","J","U","S","T","M","E","N","T">>
                          ELSE <<"T","R","A","N","S","F","E","R","I","N">>)
                    ELSE IF amounts # {} THEN <<"P","A","Y","M","E","N","T">>
                    ELSE Empty
        payments_val == IF is_payment THEN str_float(payment.amount.value)
                        ELSE IF typed = {} /\ amounts # {}
                        THEN str_float(first_amount.amount.value)
                        ELSE Empty
        adjustments_val == IF ~is_payment /\ typed # {} /\ code(first_typed) = "adjustment"
                           THEN str_float(first_typed.amount.value) ELSE Empty
        transfers_val == IF ~is_payment /\ typed # {} /\ code(first_typed) = "transfer"
                         THEN str_float(first_typed.amount.value) ELSE Empty
        notes == Get(claim_response, "note")
        texts == SelectSeq([i \in 1..Len(notes) |-> Get(notes[i], "text")],
                           LAMBDA t : t # Empty)
        joined == Flatten([i \in 1..Len(texts) |->
                              IF i = 1 THEN texts[i] ELSE <<";"," ">> \o texts[i]])
    IN  IF claim_response = Empty \/ Get(claim_response, "resourceType") # "ClaimResponse"
        THEN [row |-> Empty, err |-> "ValueError"]
        ELSE [row |->
                  ("Id" :> Get(claim_response, "id"))
                  @@ ("Claim ID" :> extract_reference_id(Get(claim_response, "request")))
                  @@ ("Charge ID" :> IF "itemSequence" \in DOMAIN first_item
                                     THEN str_int(first_item.itemSequence) ELSE Empty)
                  @@ ("Patient ID" :> extract_reference_id(Get(claim_response, "patient")))
                  @@ ("Type" :> txn_type)
                  @@ ("Method" :> method)
                  @@ ("To Date" :> parse_fhir_datetime(Get(payment, "date")))
                  @@ ("Notes" :> joined)
                  @@ ("Payments" :> payments_val)
                  @@ ("Adjustments" :> adjustments_val)
                  @@ ("Transfers" :> transfers_val)
                  @@ [k \in {"Amount", "From Date", "Place of Service", "Procedure Code",
                             "Modifier1", "Modifier2", "DiagnosisRef1", "DiagnosisRef2",
                             "DiagnosisRef3", "DiagnosisRef4", "Units", "Department ID",
                             "Unit Amount", "Transfer Out ID", "Transfer Type", "Outstanding",
                             "Appointment ID", "Line Note", "Patient Insurance ID",
                             "Fee Schedule ID", "Provider ID", "Supervising Provider ID"}
                         |-> Empty],
              err |-> ""]

\* ------------------------------------------------------------------ allergy

\* to_fhir/allergy.allergy_transform with _system_uri_from_label,
\* _build_clinical_status, _build_verification_status, _normalize_type,
\* _normalize_category, _build_code, _build_reaction_entry, _build_reactions,
\* _generate_id and filter_none_values (top level only).
allergy_transform(src) ==
    LET col(c) == Get(src, c)
        one(v, x) == IF v = Empty THEN Empty ELSE <<x>>
        concept(system, code, display) ==
            [coding |-> <<[system |-> system, code |-> code, display |-> display]>>]
        starts_with(s, prefix) == Len(s) >= Len(prefix) /\ SubSeq(s, 1, Len(prefix)) = prefix
        system_uri(label) ==
            IF label = Empty THEN <<"h","t","t","p",":","/","/","s","n","o","m","e","d",".","i","n","f","o","/","s","c","t">>
            ELSE IF starts_with(label, <<"h","t","t","p",":","/","/">>) \/ starts_with(label, <<"h","t","t","p","s",":","/","/">>) THEN label
            ELSE IF lower(strip(label)) \in {<<"s","n","o","m","e","d">>, <<"s","n","o","m","e","d","-","c","t">>, <<"s","n","o","m","e","d"," ","c","t">>}
            THEN <<"h","t","t","p",":","/","/","s","n","o","m","e","d",".","i","n","f","o","/","s","c","t">>
            ELSE IF lower(strip(label)) \in {<<"r","x","n","o","r","m">>, <<"r","x"," ","n","o","r","m">>}
            THEN <<"h","t","t","p",":","/","/","w","w","w",".","n","l","m",".","n","i","h",".","g","o","v","/","r","e","s","e","a","r","c","h","/","u","m","l","s","/","r","x","n","o","r","m">>
            ELSE label
        allergy_id ==
            IF col("PATIENT") # Empty /\ col("START") # Empty /\ col("CODE") # Empty
            THEN <<"a","l","g","-">> \o col("PATIENT") \o <<"-">>
                 \o SelectSeq(col("START"), LAMBDA c : c \notin {" ", ":", "-"})
                 \o <<"-">> \o col("CODE")
            ELSE Empty
        _normalize_type(value) ==
            IF lower(strip(value)) \in {<<"a","l","l","e","r","g","y">>, <<"i","n","t","o","l","e","r","a","n","c","e">>} THEN lower(strip(value))
            ELSE Empty
        _normalize_category(value) ==
            IF lower(strip(value)) \in {<<"d","r","u","g">>, <<"m","e","d","i","c","a","t","i","o","n">>} THEN <<<<"m","e","d","i","c","a","t","i","o","n">>>>
            ELSE IF lower(strip(value)) \in {<<"f","o","o","d">>, <<"e","n","v","i","r","o","n","m","e","n","t">>} THEN <<lower(strip(value))>>
            ELSE Empty
        _build_reaction_entry(code, description, severity) ==
            (IF code # Empty \/ description # Empty
             THEN "manifestation" :>
                      <<[coding |-> one(code, [system |-> <<"h","t","t","p",":","/","/","s","n","o","m","e","d",".","i","n","f","o","/","s","c","t">>,
                                               code |-> code, display |-> description]),
                         text |-> description]>>
             ELSE Empty)
            @@ (IF lower(strip(severity)) \in {<<"m","i","l","d">>, <<"m","o","d","e","r","a","t","e">>, <<"s","e","v","e","r","e">>}
                THEN "severity" :> lower(strip(severity)) ELSE Empty)
        \* the entries that are not None (an entry with no key is None)
        reaction(n) ==
            one(_build_reaction_entry(col("REACTION" \o n), col("DESCRIPTION" \o n),
                                      col("SEVERITY" \o n)),
                _build_reaction_entry(col("REACTION" \o n), col("DESCRIPTION" \o n),
                                      col("SEVERITY" \o n)))
    IN  ("resourceType" :> "AllergyIntolerance")
        @@ Opt("id", allergy_id)
        @@ ("clinicalStatus" :>
                IF col("STOP") # Empty
                THEN concept("http://terminology.hl7.org/CodeSystem/allergyintolerance-clinical",
                             "resolved", "Resolved")
                ELSE concept("http://terminology.hl7.org/CodeSystem/allergyintolerance-clinical",
                             "active", "Active"))
        @@ ("verificationStatus" :>
                concept("http://terminology.hl7.org/CodeSystem/allergyintolerance-verification",
                        "confirmed", "Confirmed"))
        @@ Opt("type", _normalize_type(col("TYPE")))
        @@ Opt("category", _normalize_category(col("CATEGORY")))
        @@ (IF col("CODE") = Empty THEN Empty
            ELSE "code" :> [coding |-> <<[system |-> system_uri(col("SYSTEM")),
                                          code |-> col("CODE"),
                                          display |-> col("DESCRIPTION")]>>,
                            text |-> col("DESCRIPTION")])
        @@ (IF col("PATIENT") # Empty
            THEN "patient" :> create_reference("Patient", col("PATIENT")) ELSE Empty)
        @@ (IF col("ENCOUNTER") # Empty
            THEN "encounter" :> create_reference("Encounter", col("ENCOUNTER")) ELSE Empty)
        @@ Opt("onsetDateTime", to_fhir_datetime(col("START")))
        @@ Opt("lastOccurrence", to_fhir_datetime(col("STOP")))
        @@ Opt("reaction", reaction("1") \o reaction("2"))

\* to_synthea_csv/allergy.map_fhir_allergy_to_csv: fhir_allergy_to_csv_transform
\* with _extract_start, _extract_stop, _extract_code_system_display,
\* _normalize_category_for_csv, _extract_reaction_fields and filter_none_values
\* (None becomes "").  The category codes of the resource are strings, for
\* which _normalize_category_for_csv returns None at its isinstance(cat, Dict)
\* test.
map_fhir_allergy_to_csv(fhir_allergy) ==
    LET to_upper(s) ==
            LET capital == <<"A","B","C","D","E","F","G","H","I","J","K","L","M",
                             "N","O","P","Q","R","S","T","U","V","W","X","Y","Z">>
                small == <<"a","b","c","d","e","f","g","h","i","j","k","l","m",
                           "n","o","p","q","r","s","t","u","v","w","x","y","z">>
            IN  [i \in 1..Len(s) |->
                    IF \E j \in 1..26 : small[j] = s[i]
                    THEN capital[CHOOSE j \in 1..26 : small[j] = s[i]]
                    ELSE s[i]]
        \* extract_coding_by_system: the first coding of the system
        by_system(concept, system) ==
            LET codings == Get(concept, "coding")
                hits == {i \in 1..Len(codings) : Get(codings[i], "system") = system}
            IN  IF hits = {} THEN Empty ELSE codings[CHOOSE i \in hits : \A j \in hits : i <= j]
        code_concept == Get(fhir_allergy, "code")
        chosen == IF by_system(code_concept, <<"h","t","t","p",":","/","/","s","n","o","m","e","d",".","i","n","f","o","/","s","c","t">>) # Empty
                  THEN by_system(code_concept, <<"h","t","t","p",":","/","/","s","n","o","m","e","d",".","i","n","f","o","/","s","c","t">>)
                  ELSE IF by_system(code_concept,
                                    <<"h","t","t","p",":","/","/","w","w","w",".","n","l","m",".","n","i","h",".","g","o","v","/","r","e","s","e","a","r","c","h","/","u","m","l","s","/","r","x","n","o","r","m">>) # Empty
                  THEN by_system(code_concept, <<"h","t","t","p",":","/","/","w","w","w",".","n","l","m",".","n","i","h",".","g","o","v","/","r","e","s","e","a","r","c","h","/","u","m","l","s","/","r","x","n","o","r","m">>)
                  ELSE IF Get(code_concept, "coding") # Empty THEN code_concept.coding[1]
                  ELSE Empty
        reactions == Get(fhir_allergy, "reaction")
        rx(index) == IF index > Len(reactions) THEN Empty ELSE reactions[index]
        man(index) == IF Get(rx(index), "manifestation") = Empty THEN Empty
                      ELSE rx(index).manifestation[1]
        rx_code(index) ==
            IF by_system(man(index), <<"h","t","t","p",":","/","/","s","n","o","m","e","d",".","i","n","f","o","/","s","c","t">>) # Empty
            THEN Get(by_system(man(index), <<"h","t","t","p",":","/","/","s","n","o","m","e","d",".","i","n","f","o","/","s","c","t">>), "code")
            ELSE IF Get(man(index), "coding") # Empty THEN Get(man(index).coding[1], "code")
            ELSE Empty
        _normalize_category_for_csv(categories) == Empty
    IN  IF fhir_allergy = Empty \/ Get(fhir_allergy, "resourceType") # "AllergyIntolerance"
        THEN [row |-> Empty, err |-> "ValueError"]
        ELSE [row |-> [START |-> IF parse_fhir_datetime(Get(fhir_allergy, "recordedDate")) # Empty
                                 THEN parse_fhir_datetime(Get(fhir_allergy, "recordedDate"))
                                 ELSE parse_fhir_datetime(Get(fhir_allergy, "onsetDateTime")),
                       STOP |-> parse_fhir_datetime(Get(fhir_allergy, "lastOccurrence")),
                       PATIENT |-> extract_reference_id(Get(fhir_allergy, "patient")),
                       ENCOUNTER |-> extract_reference_id(Get(fhir_allergy, "encounter")),
                       SYSTEM |-> Get(chosen, "system"),
                       CODE |-> Get(chosen, "code"),
                       DESCRIPTION |-> IF Get(chosen, "display") # Empty THEN chosen.display
                                       ELSE Get(code_concept, "text"),
                       TYPE |-> lower(Get(fhir_allergy, "type")),
                       CATEGORY |-> _normalize_category_for_csv(Get(fhir_allergy, "category")),
                       REACTION1 |-> rx_code(1),
                       DESCRIPTION1 |-> Get(rx(1), "description"),
                       SEVERITY1 |-> to_upper(Get(rx(1), "severity")),
                       REACTION2 |-> rx_code(2),
                       DESCRIPTION2 |-> Get(rx(2), "description"),
                       SEVERITY2 |-> to_upper(Get(rx(2), "severity"))],
              err |-> ""]

\* ------------------------------------------------------------------ clinical rows

\* A row of conditions.csv, careplans.csv, claims.csv, claims_transactions.csv
\* or allergies.csv about to be mapped.
InitClinical ==
    /\ tree = 1
    /\ pc = "start"
    /\ \/ /\ mapper = "condition"
          /\ row \in [START : {Empty, <<"2","0","1","9","-","0","1","-","0","1">>},
                      STOP : {Empty, <<"2","0","2","0","-","0","1","-","0","2">>, <<"2","0","2","0","-","0","1","-","0","2","T","0","3",":","0","4",":","0","5","Z">>, <<"x">>},
                      PATIENT : {Empty, <<"p">>}, ENCOUNTER : {Empty, <<"e">>},
                      CODE : {Empty, <<"1">>}, DESCRIPTION : {Empty, <<"d">>}]
       \/ /\ mapper = "careplan"
          /\ row \in [Id : {Empty, <<"c","1">>}, START : {Empty, <<"2","0","2","0","-","0","1","-","0","2">>},
                      STOP : {Empty, <<"2","0","2","0","-","0","2","-","0","3">>}, PATIENT : {<<"p">>},
                      ENCOUNTER : {Empty, <<"e">>},
                      CODE : {Empty, <<"1">>}, DESCRIPTION : {Empty, <<"d">>},
                      REASONCODE : {Empty, <<"7">>, <<"(","7",")">>},
                      REASONDESCRIPTION : {Empty, <<"H","i","p">>, <<"P","a","i","n"," ","(","a","c","u","t","e",")">>, <<"a",":"," ","b">>}]
       \/ /\ mapper = "claim"
          \* the two insurance columns each absent or present, and the other
          \* columns the forward mapper reads
          /\ row \in
             {("Id" :> id) @@ ("Patient ID" :> <<"p">>)
               @@ ("Primary Patient Insurance ID" :> primary)
               @@ ("Secondary Patient Insurance ID" :> secondary)
               @@ ("Service Date" :> service) @@ ("HealthcareClaimTypeID1" :> type1)
               @@ ("Diagnosis1" :> diag) @@ ("Diagnosis3" :> diag)
               @@ ("Supervising Provider ID" :> rest.sup) @@ ("Department ID" :> rest.dept)
               @@ ("Current Illness Date" :> rest.onset) @@ ("Status1" :> rest.status)
               @@ ("Appointment ID" :> rest.appt) @@ ("Provider ID" :> rest.sup) :
                  id \in {Empty, <<"c","1">>},
                  primary \in {Empty, <<"a">>, <<" ","a">>},
                  secondary \in {Empty, <<"b">>},
                  service \in {Empty, <<"2","0","2","0","-","0","1","-","0","2">>},
                  type1 \in {Empty, <<"1">>, <<"2">>},
                  diag \in {Empty, <<"4","4">>},
                  rest \in {[sup |-> Empty, dept |-> Empty, onset |-> Empty, status |-> Empty,
                             appt |-> Empty],
                            [sup |-> <<"s">>, dept |-> <<"D">>, onset |-> <<"2","0","2","0","-","0","1","-","0","1">>,
                             status |-> <<"C","L","O","S","E","D">>, appt |-> <<"e">>]}}
       \/ /\ mapper = "allergy"
          /\ row \in [START : {<<"2","0","2","0","-","0","1","-","0","2">>}, STOP : {Empty, <<"2","0","2","1","-","0","3","-","0","4">>},
                      PATIENT : {<<"p">>}, ENCOUNTER : {Empty},
                      CODE : {Empty, <<"1">>}, SYSTEM : {Empty, <<"R","x","N","o","r","m">>, <<"x">>},
                      DESCRIPTION : {<<"d">>}, TYPE : {Empty, <<"A","l","l","e","r","g","y">>},
                      CATEGORY : {Empty, <<"f","o","o","d">>, <<"m","e","d","i","c","a","t","i","o","n">>, <<"d","r","u","g">>},
                      REACTION1 : {Empty, <<"9">>}, DESCRIPTION1 : {Empty, <<"R","a","s","h">>},
                      SEVERITY1 : {Empty, <<"M","I","L","D">>},
                      REACTION2 : {Empty, <<"8">>}, DESCRIPTION2 : {Empty},
                      SEVERITY2 : {Empty, <<"S","E","V","E","R","E">>, <<"h","i","g","h">>}]
       \/ /\ mapper = "claims_transaction"
          /\ row \in {("Type" :> type) @@ ("Payments" :> payments)
                      @@ ("Adjustments" :> adjustments) @@ ("Transfers" :> transfers)
                      @@ ("Charge ID" :> charge) @@ ("Method" :> method)
                      @@ ("Id" :> rest.id) @@ ("Claim ID" :> rest.claim)
                      @@ ("Patient ID" :> <<"p">>) @@ ("Provider ID" :> rest.claim)
                      @@ ("Place of Service" :> rest.claim)
                      @@ ("Appointment ID" :> rest.claim)
                      @@ ("Procedure Code" :> rest.code) @@ ("Units" :> rest.units)
                      @@ ("Unit Amount" :> rest.amount) @@ ("Amount" :> rest.amount)
                      @@ ("DiagnosisRef1" :> rest.units) @@ ("DiagnosisRef2" :> rest.code)
                      @@ ("DiagnosisRef3" :> Empty) @@ ("DiagnosisRef4" :> Empty)
                      @@ ("Notes" :> rest.note) @@ ("Line Note" :> rest.code)
                      @@ ("From Date" :> rest.from) @@ ("To Date" :> rest.to)
                      @@ ("Patient Insurance ID" :> rest.claim)
                      @@ ("Supervising Provider ID" :> rest.claim)
                      @@ ("Transfer Out ID" :> rest.id) @@ ("Transfer Type" :> Empty)
                      @@ ("Outstanding" :> rest.amount) :
                         type \in {<<"P","A","Y","M","E","N","T">>, <<"A","D","J","U","S","T","M","E","N","T">>, <<"T","R","A","N","S","F","E","R","I","N">>,
                                   <<"T","R","A","N","S","F","E","R","O","U","T">>, <<"C","H","A","R","G","E">>},
                         payments \in {Empty, <<"5">>, <<"1",".","5">>},
                         adjustments \in {Empty, <<"3">>},
                         transfers \in {Empty, <<"2">>, <<"0">>},
                         charge \in {Empty, <<"0","7">>, <<"x">>},
                         method \in {Empty, <<"C","A","S","H">>},
                         rest \in {[id |-> Empty, claim |-> Empty, code |-> Empty,
                                    units |-> Empty, amount |-> Empty, note |-> Empty,
                                    from |-> Empty, to |-> Empty],
                                   [id |-> <<"t","1">>, claim |-> <<"c","1">>, code |-> <<"X","9">>,
                                    units |-> <<"2">>, amount |-> <<"1","0",".","5","0">>, note |-> <<"n">>,
                                    from |-> <<"2","0","2","0","-","0","1","-","0","2">>, to |-> Empty]}}
    /\ res = Empty
    /\ csv = Empty
    /\ err = ""

\* to_fhir/condition.map_condition applied to the row.
MapCondition ==
    /\ mapper = "condition" /\ pc = "start"
    /\ res' = condition_transform(row)
    /\ pc' = "mapped"
    /\ UNCHANGED <<mapper, tree, row, csv, err>>

\* to_fhir/careplan.map_careplan applied to the row.
MapCareplan ==
    /\ mapper = "careplan" /\ pc = "start"
    /\ res' = careplan_transform(row)
    /\ pc' = "mapped"
    /\ UNCHANGED <<mapper, tree, row, csv, err>>

\* to_synthea_csv/careplan.map_fhir_careplan_to_csv applied to the resource.
MapFhirCareplanToCsv ==
    /\ mapper = "careplan" /\ pc = "mapped"
    /\ LET r == fhir_careplan_to_csv_transform(res)
       IN  /\ csv' = r.row
           /\ err' = r.err
           /\ pc' = IF r.err = "" THEN "reversed" ELSE "raised"
    /\ UNCHANGED <<mapper, tree, row, res>>

\* to_fhir/claim.map_claim applied to the row.
MapClaim ==
    /\ mapper = "claim" /\ pc = "start"
    /\ res' = map_claim(row)
    /\ pc' = "mapped"
    /\ UNCHANGED <<mapper, tree, row, csv, err>>

\* to_synthea_csv/claim.map_fhir_claim_to_claims_row applied to the resource.
MapFhirClaimToClaimsRow ==
    /\ mapper = "claim" /\ pc = "mapped"
    /\ LET r == map_fhir_claim_to_claims_row(res)
       IN  /\ csv' = r.row
           /\ err' = r.err
           /\ pc' = IF r.err = "" THEN "reversed" ELSE "raised"
    /\ UNCHANGED <<mapper, tree, row, res>>

\* to_fhir/claims_transactions.map_claims_transaction applied to the row: the
\* pair (Claim, ClaimResponse).
MapClaimsTransaction ==
    /\ mapper = "claims_transaction" /\ pc = "start"
    /\ res' = map_claims_transaction(row)
    /\ pc' = "mapped"
    /\ UNCHANGED <<mapper, tree, row, csv, err>>

\* Faulty variant of the action below: the payment read by popping it from the
\* ClaimResponse given, so that the caller's resource loses it.
MapFhirClaimresponseToClaimsTransactionInPlace ==
    /\ mapper = "claims_transaction" /\ pc = "mapped"
    /\ LET r == map_fhir_claimresponse_to_claims_transaction(res[2])
       IN  /\ csv' = r.row
           /\ err' = r.err
           /\ pc' = IF r.err = "" THEN "reversed" ELSE "raised"
    /\ res' = <<res[1], [k \in DOMAIN res[2] \ {"payment"} |-> res[2][k]]>>
    /\ UNCHANGED <<mapper, tree, row>>

\* map_fhir_claimresponse_to_claims_transaction applied to the ClaimResponse
\* of the pair.
MapFhirClaimresponseToClaimsTransaction ==
    /\ mapper = "claims_transaction" /\ pc = "mapped"
    /\ LET r == map_fhir_claimresponse_to_claims_transaction(res[2])
       IN  /\ csv' = r.row
           /\ err' = r.err
           /\ pc' = IF r.err = "" THEN "reversed" ELSE "raised"
    /\ UNCHANGED <<mapper, tree, row, res>>

\* to_fhir/allergy.map_allergy applied to the row.
MapAllergy ==
    /\ mapper = "allergy" /\ pc = "start"
    /\ res' = allergy_transform(row)
    /\ pc' = "mapped"
    /\ UNCHANGED <<mapper, tree, row, csv, err>>

\* to_synthea_csv/allergy.map_fhir_allergy_to_csv applied to the resource.
MapFhirAllergyToCsv ==
    /\ mapper = "allergy" /\ pc = "mapped"
    /\ LET r == map_fhir_allergy_to_csv(res)
       IN  /\ csv' = r.row
           /\ err' = r.err
           /\ pc' = IF r.err = "" THEN "reversed" ELSE "raised"
    /\ UNCHANGED <<mapper, tree, row, res>>

NextClinical ==
    \/ MapCondition
    \/ MapCareplan
    \/ MapFhirCareplanToCsv
    \/ MapClaim
    \/ MapFhirClaimToClaimsRow
    \/ MapAllergy
    \/ MapFhirAllergyToCsv
    \/ MapClaimsTransaction
    \/ MapFhirClaimresponseToClaimsTransaction

SpecClinical == InitClinical /\ [][NextClinical]_vars

\* ------------------------------------------------------------------ all mappers

\* The calls of the to_fhir and to_synthea_csv packages modelled above, side
\* by side: a row, or a resource, about to be given to one of the mappers.
InitMappers ==
    \/ InitClinical
    \/ InitPayer /\ tree = 1
    \/ InitDate /\ tree = 1 /\ mapper = "payer_transitions"

NextMappers ==
    \/ MapCondition
    \/ MapCareplan
    \/ MapFhirCareplanToCsv
    \/ MapClaim
    \/ MapFhirClaimToClaimsRow
    \/ MapAllergy
    \/ MapFhirAllergyToCsv
    \/ MapClaimsTransaction
    \/ MapFhirClaimresponseToClaimsTransaction
    \/ MapPayer
    \/ MapFhirPayerToCsv
    \/ MapPayerTransition
    \/ ReversePayerTransition

SpecMappers == InitMappers /\ [][NextMappers]_vars

\* ------------------------------------------------------------------ claims C24, C27..C30, C21

\* C24: map_condition sets clinicalStatus active and emits no
\* abatementDateTime when STOP is absent or empty, and sets resolved and emits
\* an abatementDateTime when STOP is non-empty; never resolved without an
\* abatementDateTime, never active with one.
C24_ClinicalStatusAndAbatement ==
    (mapper = "condition" /\ pc = "mapped") =>
        LET status == res["clinicalStatus"].coding[1].code
        IN  /\ row.STOP = Empty =>
                status = "active" /\ "abatementDateTime" \notin DOMAIN res
            /\ row.STOP # Empty =>
                status = "resolved" /\ "abatementDateTime" \in DOMAIN res
            /\ status = "resolved" <=> "abatementDateTime" \in DOMAIN res

C29_ReasonRoundTrip ==
    (mapper = "careplan" /\ pc \in {"reversed", "raised"}) =>
        /\ pc = "reversed"
        /\ csv.REASONCODE = row.REASONCODE
        /\ csv.REASONDESCRIPTION = row.REASONDESCRIPTION

\* C27: map_fhir_claim_to_claims_row(map_claim(row)) returns Primary Patient
\* Insurance ID and Secondary Patient Insurance ID equal to the original
\* columns, whether both, only one or neither was present.
C27_InsuranceIdsRoundTrip ==
    (mapper = "claim" /\ pc \in {"reversed", "raised"}) =>
        /\ pc = "reversed"
        /\ csv["Primary Patient Insurance ID"] = row["Primary Patient Insurance ID"]
        /\ csv["Secondary Patient Insurance ID"] = row["Secondary Patient Insurance ID"]

\* C28: for a claims_transactions row whose Type is PAYMENT, ADJUSTMENT,
\* TRANSFERIN or TRANSFEROUT and whose Payments, Adjustments and Transfers are
\* each empty or numeric, the reverse mapper applied to the ClaimResponse of
\* map_claims_transaction returns the same Type and, in those three columns,
\* amounts numerically equal to the original ones.
C28_TypeAndAmountsRoundTrip ==
    LET same_amount(c) ==
            IF row[c] = Empty THEN csv[c] = Empty
            ELSE csv[c] # Empty /\ NumEq(float(csv[c]), float(row[c]))
    IN  (/\ mapper = "claims_transaction" /\ pc \in {"reversed", "raised"}
         /\ row["Type"] \in {<<"P","A","Y","M","E","N","T">>, <<"A","D","J","U","S","T","M","E","N","T">>, <<"T","R","A","N","S","F","E","R","I","N">>, <<"T","R","A","N","S","F","E","R","O","U","T">>}
         /\ \A c \in {"Payments", "Adjustments", "Transfers"} :
                row[c] = Empty \/ float(row[c]).k = "fin")
        => /\ pc = "reversed"
           /\ csv["Type"] = row["Type"]
           /\ same_amount("Payments")
           /\ same_amount("Adjustments")
           /\ same_amount("Transfers")

\* C30: for an allergies row whose CATEGORY is medication, food or environment
\* and whose SEVERITY1 and SEVERITY2 are MILD, MODERATE or SEVERE,
\* map_fhir_allergy_to_csv(map_allergy(row)) returns CATEGORY, REACTION1,
\* DESCRIPTION1, SEVERITY1, REACTION2, DESCRIPTION2 and SEVERITY2 equal to the
\* original columns.
C30_CategoryAndReactionsRoundTrip ==
    (/\ mapper = "allergy" /\ pc \in {"reversed", "raised"}
     /\ row.CATEGORY \in {<<"m","e","d","i","c","a","t","i","o","n">>, <<"f","o","o","d">>, <<"e","n","v","i","r","o","n","m","e","n","t">>}
     /\ {row.SEVERITY1, row.SEVERITY2} \subseteq {<<"M","I","L","D">>, <<"M","O","D","E","R","A","T","E">>, <<"S","E","V","E","R","E">>})
    => /\ pc = "reversed"
       /\ \A c \in {"CATEGORY", "REACTION1", "DESCRIPTION1", "SEVERITY1",
                    "REACTION2", "DESCRIPTION2", "SEVERITY2"} : csv[c] = row[c]

====
